---- MODULE Spec2Model ----
(***************************************************************************)
(* A model of the NLQ backend's query-safety validation and bounded        *)
(* execution layer (QueryExecutionService), of the two orchestrators that  *)
(* sit on top of it (NLQService, AdvancedNLQService) and of the            *)
(* NLQController endpoints that reach them.                                *)
(*                                                                         *)
(* SQL texts are sequences of one-character strings, so that toUpperCase,  *)
(* trim, includes, startsWith and the regular expressions of the source    *)
(* are computed character by character.                                    *)
(***************************************************************************)
EXTENDS Naturals, Integers, Sequences, FiniteSets, TLC

VARIABLES
  vsql,         \* validateQuerySafety under test: its argument
  verdict,      \* validateQuerySafety under test: its outcome (Pending before the call)
  call,         \* the latest call made to the services (see NewCall)
  n,            \* number of calls made so far
  pool,         \* primary pool: connection -> "idle" | "out"
  stmtTimeout,  \* primary pool: connection -> statement_timeout of its session (0: never set)
  dbLog,        \* statements the primary database received since the latest call began
  isInitialized, \* isInitialized of NLQService and of AdvancedNLQService
  reqs,         \* the requests that run side by side (see NoReq)
  vectorDB      \* vector database: the tables table_metadata and schema_metadata

vars ==
  <<vsql, verdict, call, n, pool, stmtTimeout, dbLog, isInitialized, reqs, vectorDB>>

----------------------------------------------------------------------------
(* Bounds of the model *)

\* longest input of the validator, counted in fragments of Fragments
MaxFrags == 2
\* number of calls made one after another in a behaviour
MaxCalls == 2
\* connections of the primary pool (the code configures max: 20)
PoolMax == 1
\* requests that run side by side
MaxReqs == 2

Conns == 1..PoolMax

Reqs == 1..MaxReqs

----------------------------------------------------------------------------
(* JavaScript string primitives *)

LowerLetters == <<"a","b","c","d","e","f","g","h","i","j","k","l","m","n","o","p","q","r","s","t","u","v","w","x","y","z">>
UpperLetters == <<"A","B","C","D","E","F","G","H","I","J","K","L","M","N","O","P","Q","R","S","T","U","V","W","X","Y","Z">>

\* String.prototype.toUpperCase on one character
ToUpperChar(ch) ==
  IF \E i \in 1..26 : LowerLetters[i] = ch
    THEN UpperLetters[CHOOSE i \in 1..26 : LowerLetters[i] = ch]
    ELSE ch

\* String.prototype.toLowerCase on one character
ToLowerChar(ch) ==
  IF \E i \in 1..26 : UpperLetters[i] = ch
    THEN LowerLetters[CHOOSE i \in 1..26 : UpperLetters[i] = ch]
    ELSE ch

toUpperCase(s) == [i \in 1..Len(s) |-> ToUpperChar(s[i])]

toLowerCase(s) == [i \in 1..Len(s) |-> ToLowerChar(s[i])]

\* the white space String.prototype.trim removes (of the characters modelled)
WhiteSpace == {" ", "\n", "\t", "\r"}

\* the line terminators a regular expression's "." does not match
LineTerminators == {"\n", "\r"}

trim(s) ==
  LET keep == {i \in 1..Len(s) : s[i] \notin WhiteSpace}
  IN IF keep = {} THEN << >>
     ELSE LET lo == CHOOSE i \in keep : \A j \in keep : i <= j
              hi == CHOOSE i \in keep : \A j \in keep : i >= j
          IN SubSeq(s, lo, hi)

\* s has p at position i
MatchAt(s, i, p) ==
  /\ i >= 1
  /\ i + Len(p) - 1 <= Len(s)
  /\ \A k \in 1..Len(p) : s[i + k - 1] = p[k]

\* the positions of s where p occurs
IndexesOf(s, p) == {i \in 1..(Len(s) + 1 - Len(p)) : MatchAt(s, i, p)}

\* String.prototype.includes
includes(s, p) == \E i \in 1..(Len(s) + 1) : MatchAt(s, i, p)

\* String.prototype.startsWith
startsWith(s, p) == MatchAt(s, 1, p)

\* RegExp /p1.*p2.*p3/i .test(s): p1, p2 and p3 in this order on one line,
\* letters compared without case
RegexTest3(s, p1, p2, p3) ==
  LET u == toUpperCase(s)
      q1 == toUpperCase(p1)
      q2 == toUpperCase(p2)
      q3 == toUpperCase(p3)
  IN \E i \in IndexesOf(u, q1) :
       \E j \in IndexesOf(u, q2) :
         /\ j >= i + Len(q1)
         /\ \E k \in IndexesOf(u, q3) :
              /\ k >= j + Len(q2)
              /\ \A m \in i..(k + Len(q3) - 1) : s[m] \notin LineTerminators

\* decimal digits of a natural number, as template literals print it
Digits == <<"0","1","2","3","4","5","6","7","8","9">>

RECURSIVE NatToString(_)
NatToString(k) ==
  IF k < 10 THEN <<Digits[k + 1]>>
  ELSE NatToString(k \div 10) \o <<Digits[(k % 10) + 1]>>

----------------------------------------------------------------------------
(* QueryExecutionService.validateQuerySafety *)

\* An Error thrown by the validator: its message is fixed by kind and name.
\*   DangerousOperation  "Dangerous operation detected: <name> statements are not allowed"
\*   SystemTableAccess   "Access to system table detected: <name> access is not allowed"
\*   FileSystemAccess    "File system access operations are not allowed"
\*   DangerousFunction   "Dangerous function call detected: <name> is not allowed"
\*   NotASelect          "Only SELECT queries are allowed"
\*   DangerousSubquery   "Query contains potentially dangerous subqueries"
Rejected(kind, name) == [ok |-> FALSE, kind |-> kind, name |-> name]

\* the validator returned without throwing
Accepted == [ok |-> TRUE, kind |-> "Accepted", name |-> << >>]

\* no verdict yet
Pending == [ok |-> FALSE, kind |-> "Pending", name |-> << >>]

dangerousKeywords ==
  << <<"D","R","O","P">>, <<"D","E","L","E","T","E">>, <<"U","P","D","A","T","E">>, <<"I","N","S","E","R","T">>, <<"A","L","T","E","R">>, <<"C","R","E","A","T","E">>,
     <<"T","R","U","N","C","A","T","E">>, <<"G","R","A","N","T">>, <<"R","E","V","O","K","E">>, <<"E","X","E","C">>, <<"E","X","E","C","U","T","E">> >>

\* written in lower case in the source, and looked for in the upper-cased text
systemTables ==
  << <<"p","g","_">>, <<"i","n","f","o","r","m","a","t","i","o","n","_","s","c","h","e","m","a">>, <<"s","y","s">>, <<"m","y","s","q","l">>, <<"p","e","r","f","o","r","m","a","n","c","e","_","s","c","h","e","m","a">> >>

\* written in lower case in the source, and looked for in the upper-cased text
dangerousFunctions ==
  << <<"p","g","_","r","e","a","d","_","f","i","l","e">>, <<"p","g","_","l","s","_","d","i","r">>, <<"l","o","_","i","m","p","o","r","t">>, <<"l","o","_","e","x","p","o","r","t">> >>

\* for (const x of list) if (text.includes(x)) throw: the index of the first
\* element of list that text includes, 0 when it includes none
FirstIncluded(text, list) ==
  LET hits == {i \in 1..Len(list) : includes(text, list[i])}
  IN IF hits = {} THEN 0 ELSE CHOOSE i \in hits : \A j \in hits : i <= j

\* dangerousPatterns.some(pattern => pattern.test(sql))
containsDangerousSubquery(sql) ==
  \/ RegexTest3(sql, <<"S","E","L","E","C","T">>, <<"F","R","O","M">>, <<"p","g","_">>)
  \/ RegexTest3(sql, <<"S","E","L","E","C","T">>, <<"F","R","O","M">>, <<"i","n","f","o","r","m","a","t","i","o","n","_","s","c","h","e","m","a">>)
  \/ RegexTest3(sql, <<"S","E","L","E","C","T">>, <<"F","R","O","M">>, <<"s","y","s",".">>)

\* validateQuerySafety with a slip: the text is not upper-cased before the checks
validateQuerySafety_caseSensitive(sql) ==
  LET upperSQL == trim(sql)
      kw == FirstIncluded(upperSQL, dangerousKeywords)
      st == FirstIncluded(upperSQL, systemTables)
      fn == FirstIncluded(upperSQL, dangerousFunctions)
  IN IF kw # 0 THEN Rejected("DangerousOperation", dangerousKeywords[kw])
     ELSE IF st # 0 THEN Rejected("SystemTableAccess", systemTables[st])
     ELSE IF includes(upperSQL, <<"C","O","P","Y">>) \/ includes(upperSQL, <<"\\","C","O","P","Y">>)
       THEN Rejected("FileSystemAccess", << >>)
     ELSE IF fn # 0 THEN Rejected("DangerousFunction", dangerousFunctions[fn])
     ELSE IF ~startsWith(upperSQL, <<"S","E","L","E","C","T">>) THEN Rejected("NotASelect", << >>)
     ELSE IF containsDangerousSubquery(sql) THEN Rejected("DangerousSubquery", << >>)
     ELSE Accepted

\* validateQuerySafety with a slip: includes in place of startsWith
validateQuerySafety_anySelect(sql) ==
  LET upperSQL == trim(toUpperCase(sql))
      kw == FirstIncluded(upperSQL, dangerousKeywords)
      st == FirstIncluded(upperSQL, systemTables)
      fn == FirstIncluded(upperSQL, dangerousFunctions)
  IN IF kw # 0 THEN Rejected("DangerousOperation", dangerousKeywords[kw])
     ELSE IF st # 0 THEN Rejected("SystemTableAccess", systemTables[st])
     ELSE IF includes(upperSQL, <<"C","O","P","Y">>) \/ includes(upperSQL, <<"\\","C","O","P","Y">>)
       THEN Rejected("FileSystemAccess", << >>)
     ELSE IF fn # 0 THEN Rejected("DangerousFunction", dangerousFunctions[fn])
     ELSE IF ~includes(upperSQL, <<"S","E","L","E","C","T">>) THEN Rejected("NotASelect", << >>)
     ELSE IF containsDangerousSubquery(sql) THEN Rejected("DangerousSubquery", << >>)
     ELSE Accepted

\* validateQuerySafety with a slip: the structure check skips an empty text
validateQuerySafety_emptyPasses(sql) ==
  LET upperSQL == trim(toUpperCase(sql))
      kw == FirstIncluded(upperSQL, dangerousKeywords)
      st == FirstIncluded(upperSQL, systemTables)
      fn == FirstIncluded(upperSQL, dangerousFunctions)
  IN IF kw # 0 THEN Rejected("DangerousOperation", dangerousKeywords[kw])
     ELSE IF st # 0 THEN Rejected("SystemTableAccess", systemTables[st])
     ELSE IF includes(upperSQL, <<"C","O","P","Y">>) \/ includes(upperSQL, <<"\\","C","O","P","Y">>)
       THEN Rejected("FileSystemAccess", << >>)
     ELSE IF fn # 0 THEN Rejected("DangerousFunction", dangerousFunctions[fn])
     ELSE IF upperSQL # << >> /\ ~startsWith(upperSQL, <<"S","E","L","E","C","T">>) THEN Rejected("NotASelect", << >>)
     ELSE IF containsDangerousSubquery(sql) THEN Rejected("DangerousSubquery", << >>)
     ELSE Accepted

\* The verdict of validateQuerySafety(sql): Accepted when it returns, the Error
\* it throws otherwise.
validateQuerySafety(sql) ==
  LET upperSQL == trim(toUpperCase(sql))
      kw == FirstIncluded(upperSQL, dangerousKeywords)
      st == FirstIncluded(upperSQL, systemTables)
      fn == FirstIncluded(upperSQL, dangerousFunctions)
  IN IF kw # 0 THEN Rejected("DangerousOperation", dangerousKeywords[kw])
     ELSE IF st # 0 THEN Rejected("SystemTableAccess", systemTables[st])
     ELSE IF includes(upperSQL, <<"C","O","P","Y">>) \/ includes(upperSQL, <<"\\","C","O","P","Y">>)
       THEN Rejected("FileSystemAccess", << >>)
     ELSE IF fn # 0 THEN Rejected("DangerousFunction", dangerousFunctions[fn])
     ELSE IF ~startsWith(upperSQL, <<"S","E","L","E","C","T">>) THEN Rejected("NotASelect", << >>)
     ELSE IF containsDangerousSubquery(sql) THEN Rejected("DangerousSubquery", << >>)
     ELSE Accepted

----------------------------------------------------------------------------
(* Inputs of the validator *)

\* the pieces validator inputs are built from
Fragments ==
  { <<"S","E","L","E","C","T"," ","*"," ","F","R","O","M"," ">>, <<"s","e","l","e","c","t"," ","*"," ","f","r","o","m"," ">>, <<"S","E","L","E","C","T"," ","*"," ","F","R","O","M","\n">>, <<"S","E","L","E","C","T"," ">>,
    <<" "," ","s","e","l","e","c","t"," ">>, <<"E","X","P","L","A","I","N"," ">>, <<" ">>, <<"\n">>, <<"\t">>,
    <<"c","u","s","t","o","m","e","r","s">>, <<"p","g","_","u","s","e","r">>, <<"P","G","_","C","L","A","S","S">>, <<"i","n","f","o","r","m","a","t","i","o","n","_","s","c","h","e","m","a",".","t","a","b","l","e","s">>,
    <<"s","y","s",".","t","a","b","l","e","s">>, <<"s","y","s","t","e","m","_","l","o","g">>, <<"u","p","d","a","t","e","_","c","o","u","n","t">>, <<" ","F","R","O","M"," ","t">>,
    <<"p","g","_","r","e","a","d","_","f","i","l","e","(","'","/","e","t","c","/","p","a","s","s","w","d","'",")">>, <<"l","o","_","e","x","p","o","r","t","(","1",","," ","'","/","t","m","p","/","x","'",")">>,
    <<"D","R","O","P"," ","T","A","B","L","E"," ","t">>, <<"c","o","p","y"," ","t">>, <<"E","x","e","c","u","t","e"," ","p">>, <<"W","I","T","H"," ","t"," ","A","S"," ","(">>, <<" ","L","I","M","I","T"," ","5">> }

RECURSIVE Concat(_)
Concat(fs) == IF fs = << >> THEN << >> ELSE Head(fs) \o Concat(Tail(fs))

\* the queries of tests/query-execution.test.js, validateQuerySafety
TestQueries ==
  { <<"S","E","L","E","C","T"," ","*"," ","F","R","O","M"," ","c","u","s","t","o","m","e","r","s">>,
    <<"S","E","L","E","C","T"," ","i","d",","," ","n","a","m","e"," ","F","R","O","M"," ","c","u","s","t","o","m","e","r","s"," ","W","H","E","R","E"," ","i","d"," ","="," ","1">>,
    <<"S","E","L","E","C","T"," ","C","O","U","N","T","(","*",")"," ","F","R","O","M"," ","o","r","d","e","r","s">>,
    <<"S","E","L","E","C","T"," ","c",".","n","a","m","e",","," ","o",".","a","m","o","u","n","t"," ","F","R","O","M"," ","c","u","s","t","o","m","e","r","s"," ","c"," ","J","O","I","N"," ","o","r","d","e","r","s"," ","o"," ","O","N"," ","c",".","i","d"," ","="," ","o",".","c","u","s","t","o","m","e","r","_","i","d">>,
    <<"D","R","O","P"," ","T","A","B","L","E"," ","c","u","s","t","o","m","e","r","s">>,
    <<"D","E","L","E","T","E"," ","F","R","O","M"," ","c","u","s","t","o","m","e","r","s">>,
    <<"U","P","D","A","T","E"," ","c","u","s","t","o","m","e","r","s"," ","S","E","T"," ","n","a","m","e"," ","="," ","\"","h","a","c","k","e","d","\"">>,
    <<"I","N","S","E","R","T"," ","I","N","T","O"," ","c","u","s","t","o","m","e","r","s"," ","V","A","L","U","E","S"," ","(","1",","," ","\"","h","a","c","k","e","r","\"",")">>,
    <<"A","L","T","E","R"," ","T","A","B","L","E"," ","c","u","s","t","o","m","e","r","s"," ","A","D","D"," ","C","O","L","U","M","N"," ","h","a","c","k","e","d"," ","V","A","R","C","H","A","R","(","2","5","5",")">>,
    <<"T","R","U","N","C","A","T","E"," ","T","A","B","L","E"," ","c","u","s","t","o","m","e","r","s">>,
    <<"G","R","A","N","T"," ","A","L","L"," ","P","R","I","V","I","L","E","G","E","S"," ","O","N"," ","c","u","s","t","o","m","e","r","s"," ","T","O"," ","p","u","b","l","i","c">>,
    <<"R","E","V","O","K","E"," ","A","L","L"," ","P","R","I","V","I","L","E","G","E","S"," ","O","N"," ","c","u","s","t","o","m","e","r","s"," ","F","R","O","M"," ","p","u","b","l","i","c">>,
    <<"S","E","L","E","C","T"," ","*"," ","F","R","O","M"," ","p","g","_","u","s","e","r">>,
    <<"S","E","L","E","C","T"," ","*"," ","F","R","O","M"," ","i","n","f","o","r","m","a","t","i","o","n","_","s","c","h","e","m","a",".","t","a","b","l","e","s">>,
    <<"S","E","L","E","C","T"," ","*"," ","F","R","O","M"," ","s","y","s",".","t","a","b","l","e","s">>,
    <<"C","O","P","Y"," ","c","u","s","t","o","m","e","r","s"," ","T","O"," ","'","/","t","m","p","/","d","a","t","a",".","c","s","v","'">>,
    <<"\\","C","O","P","Y"," ","c","u","s","t","o","m","e","r","s"," ","T","O"," ","'","/","t","m","p","/","d","a","t","a",".","c","s","v","'">>,
    <<"S","E","L","E","C","T"," ","p","g","_","r","e","a","d","_","f","i","l","e","(","'","/","e","t","c","/","p","a","s","s","w","d","'",")">>,
    <<"S","E","L","E","C","T"," ","p","g","_","l","s","_","d","i","r","(","'","/","'",")">>,
    <<"S","E","L","E","C","T"," ","l","o","_","i","m","p","o","r","t","(","'","/","e","t","c","/","p","a","s","s","w","d","'",")">>,
    <<"C","R","E","A","T","E"," ","T","A","B","L","E"," ","t","e","s","t"," ","(","i","d"," ","I","N","T",")">>,
    <<"E","X","P","L","A","I","N"," ","S","E","L","E","C","T"," ","*"," ","F","R","O","M"," ","c","u","s","t","o","m","e","r","s">>,
    <<"W","I","T","H"," ","R","E","C","U","R","S","I","V","E"," ","t"," ","A","S"," ","(","S","E","L","E","C","T"," ","1",")"," ","S","E","L","E","C","T"," ","*"," ","F","R","O","M"," ","t">> }

ValidatorInputs ==
  TestQueries \cup
  { Concat(fs) : fs \in UNION { [1..k -> Fragments] : k \in 0..MaxFrags } }

----------------------------------------------------------------------------
(* QueryExecutionService: configuration, errors, results *)

\* parseInt(process.env.MAX_RESULT_ROWS) || 10000
maxResultRows == 10000

\* parseInt(process.env.QUERY_TIMEOUT_MS) || 30000
queryTimeout == 30000

\* Errors other than the validator's, in the same shape:
\*   QueryTimeout   "Query timeout after <queryTimeout>ms"
\*   DriverError    an error of the pg driver or of the database; name is its message
\*   CostEstimationFailed, ExecutionPlanFailed   the wrappers, name is the inner message
TimeoutError == Rejected("QueryTimeout", << >>)

\* error.message
message(e) ==
  CASE e.kind = "DangerousOperation" ->
         <<"D","a","n","g","e","r","o","u","s"," ","o","p","e","r","a","t","i","o","n"," ","d","e","t","e","c","t","e","d",":"," ">> \o e.name \o <<" ","s","t","a","t","e","m","e","n","t","s"," ","a","r","e"," ","n","o","t"," ","a","l","l","o","w","e","d">>
    [] e.kind = "SystemTableAccess" ->
         <<"A","c","c","e","s","s"," ","t","o"," ","s","y","s","t","e","m"," ","t","a","b","l","e"," ","d","e","t","e","c","t","e","d",":"," ">> \o e.name \o <<" ","a","c","c","e","s","s"," ","i","s"," ","n","o","t"," ","a","l","l","o","w","e","d">>
    [] e.kind = "FileSystemAccess" -> <<"F","i","l","e"," ","s","y","s","t","e","m"," ","a","c","c","e","s","s"," ","o","p","e","r","a","t","i","o","n","s"," ","a","r","e"," ","n","o","t"," ","a","l","l","o","w","e","d">>
    [] e.kind = "DangerousFunction" ->
         <<"D","a","n","g","e","r","o","u","s"," ","f","u","n","c","t","i","o","n"," ","c","a","l","l"," ","d","e","t","e","c","t","e","d",":"," ">> \o e.name \o <<" ","i","s"," ","n","o","t"," ","a","l","l","o","w","e","d">>
    [] e.kind = "NotASelect" -> <<"O","n","l","y"," ","S","E","L","E","C","T"," ","q","u","e","r","i","e","s"," ","a","r","e"," ","a","l","l","o","w","e","d">>
    [] e.kind = "DangerousSubquery" -> <<"Q","u","e","r","y"," ","c","o","n","t","a","i","n","s"," ","p","o","t","e","n","t","i","a","l","l","y"," ","d","a","n","g","e","r","o","u","s"," ","s","u","b","q","u","e","r","i","e","s">>
    [] e.kind = "QueryTimeout" ->
         <<"Q","u","e","r","y"," ","t","i","m","e","o","u","t"," ","a","f","t","e","r"," ">> \o NatToString(queryTimeout) \o <<"m","s">>
    [] e.kind = "CostEstimationFailed" -> <<"C","o","s","t"," ","e","s","t","i","m","a","t","i","o","n"," ","f","a","i","l","e","d",":"," ">> \o e.name
    [] e.kind = "ExecutionPlanFailed" -> <<"E","x","e","c","u","t","i","o","n"," ","p","l","a","n"," ","g","e","n","e","r","a","t","i","o","n"," ","f","a","i","l","e","d",":"," ">> \o e.name
    [] e.kind = "SyntaxError" -> <<"S","Q","L"," ","s","y","n","t","a","x"," ","e","r","r","o","r",":"," ">> \o e.name
    [] e.kind = "DangerousKeyword" ->
         <<"D","a","n","g","e","r","o","u","s"," ","o","p","e","r","a","t","i","o","n"," ","'">> \o e.name \o <<"'"," ","i","s"," ","n","o","t"," ","a","l","l","o","w","e","d">>
    [] OTHER -> e.name

\* what the pg driver may fail with: a query error of the database, and the
\* pool's error when no connection is had within connectionTimeoutMillis
TableMissing == Rejected("DriverError", <<"T","a","b","l","e"," ","d","o","e","s"," ","n","o","t"," ","e","x","i","s","t">>)

ConnectFailed == Rejected("DriverError", <<"t","i","m","e","o","u","t"," ","e","x","c","e","e","d","e","d"," ","w","h","e","n"," ","t","r","y","i","n","g"," ","t","o"," ","c","o","n","n","e","c","t">>)

QueryErrors == {TableMissing}

\* error.code: the SQLSTATE of an error of the database (42P01,
\* undefined_table), undefined (the empty text here) on any other Error
code(e) == IF e = TableMissing THEN <<"4","2","P","0","1">> ELSE << >>

\* What a call gave its caller: nothing yet, a value (success is the value's
\* success, or valid, field; error its error, or message, field) or an exception.
NoResult == [how |-> "none", success |-> FALSE, error |-> << >>]

Returned(success, error) == [how |-> "returned", success |-> success, error |-> error]

Threw(error) == [how |-> "threw", success |-> FALSE, error |-> error]

----------------------------------------------------------------------------
(* QueryExecutionService.formatSQL *)

\* the words of s, split at white space
RECURSIVE SplitWords(_, _)
SplitWords(s, word) ==
  IF s = << >> THEN (IF word = << >> THEN << >> ELSE <<word>>)
  ELSE IF Head(s) \in WhiteSpace
    THEN (IF word = << >> THEN << >> ELSE <<word>>) \o SplitWords(Tail(s), << >>)
    ELSE SplitWords(Tail(s), Append(word, Head(s)))

\* the clause keywords sql-formatter puts on a line of their own
ClauseKeywords == { <<"S","E","L","E","C","T">>, <<"F","R","O","M">>, <<"W","H","E","R","E">>, <<"L","I","M","I","T">> }

\* sql-formatter's format(sql, {language: 'postgresql', tabWidth: 2,
\* keywordCase: 'upper'}): each clause keyword in upper case on its own line,
\* what follows it indented by two spaces on the next
RECURSIVE FormatWords(_, _)
FormatWords(words, first) ==
  IF words = << >> THEN << >>
  ELSE LET w == Head(words)
           kw == toUpperCase(w) \in ClauseKeywords
           sep == IF first THEN << >> ELSE IF kw THEN <<"\n">> ELSE <<"\n"," "," ">>
       IN sep \o (IF kw THEN toUpperCase(w) ELSE w) \o FormatWords(Tail(words), FALSE)

format(sql) == FormatWords(SplitWords(sql, << >>), TRUE)

\* formatSQL(sql): the formatter's text, or sql itself when the formatter throws
formatSQL(sql) == {format(sql), sql}

----------------------------------------------------------------------------
(* Calls *)

\* the SQL texts callers and the language model hand in
SqlPool ==
  { <<"S","E","L","E","C","T"," ","*"," ","F","R","O","M"," ","c","u","s","t","o","m","e","r","s">>,
    <<"s","e","l","e","c","t"," ","i","d"," ","f","r","o","m"," ","o","r","d","e","r","s"," ","l","i","m","i","t"," ","5">>,
    <<"D","E","L","E","T","E"," ","F","R","O","M"," ","c","u","s","t","o","m","e","r","s">>,
    <<"S","E","L","E","C","T"," ","*"," ","F","R","O","M"," ","r","a","t","e","_","l","i","m","i","t","s">>,
    <<"S","E","L","E","C","T"," ","*"," ","F","R","O","M"," ","p","g","_","u","s","e","r">> }

\* options.maxResults of a call; 0 stands for an option that is not given
MaxResultsPool == {0, 50}

\* options.timeoutMs of a call; 0 stands for an option that is not given
TimeoutMsPool == {0, 5000}

QesOps == {"executeQuery", "validateSyntax", "estimateQueryCost", "getExecutionPlan"}

\* no plan has come from the database, and no function has returned a value
NoPlan == << >>

NoValue == << >>

\* result.rows[0]['QUERY PLAN'][0] of an EXPLAIN (FORMAT JSON), as
\* estimateQueryCost reads it: its 'Total Cost' and its 'Plan Rows'
Plans == { [TotalCost |-> c, PlanRows |-> r] : c \in {0, 25}, r \in {0, 100} }

\* what the database answers to the statement sql
QueryPlans(sql) ==
  IF startsWith(sql, <<"E","X","P","L","A","I","N"," ","(","F","O","R","M","A","T"," ","J","S","O","N",")"," ">>) THEN Plans ELSE {NoPlan}

\* the primary database and the LLM provider are both reachable
Reachable == [database |-> TRUE, llm |-> TRUE]

\* One call. op is the operation called and pc where it stands ("none": no
\* call yet, "done": it has given its result); fn is the QueryExecutionService
\* function it is in ("none" outside), fpc where that function stands
\* ("validate", "await", "returned") and fres what it gave; safe is set once
\* validateQuerySafety has accepted the call's SQL. esql .. err are the state
\* of the executeWithTimeout it started last: body is where the async executor
\* stands ("connect", "set", "query": the await it is suspended at; "end": it
\* has finished), promise the state of the Promise it returned, timer the
\* state of the setTimeout, client the connection it holds (0: none), err the
\* reason the promise was rejected with. result is what the operation gave its
\* caller and status the HTTP status of the response (0: none);
\* validateBeforeExecution is the option of NLQService.processQuery, env what
\* is reachable from the service while a health request is answered, and
\* timeoutMs the option of that name; plan is the plan the database answered
\* the latest EXPLAIN (FORMAT JSON) with and value what the function returned
\* besides its verdict.
NewCall(op, sql, maxResults) ==
  [ op |-> op, pc |-> "none", sql |-> sql, maxResults |-> maxResults,
    fn |-> "none", fpc |-> "none", fres |-> NoResult, safe |-> FALSE,
    esql |-> << >>, body |-> "none", promise |-> "none", timer |-> "none",
    client |-> 0, err |-> Accepted,
    result |-> NoResult, status |-> 0, validateBeforeExecution |-> TRUE,
    env |-> Reachable, timeoutMs |-> 0, plan |-> NoPlan, value |-> NoValue ]

NoCall == NewCall("none", << >>, 0)

\* Another call may be made: calls are made one after the other, each once
\* the call before it has given its result and the executor it started, if
\* any, has ended.
Quiet ==
  /\ call.pc \in {"none", "done"}
  /\ call.body \in {"none", "end"}
  /\ n < MaxCalls

\* The record of one statement the primary database received: the connection
\* it came on, its text, the way it was sent ("executeWithTimeout": on a client
\* checked out there; "primaryDB.query": Pool.query, on a client the pool picks
\* and releases) and the statement_timeout of the session when it arrived.
Statement(conn, text, via) ==
  [conn |-> conn, text |-> text, via |-> via, timeout |-> stmtTimeout[conn]]

----------------------------------------------------------------------------
(* QueryExecutionService.executeWithTimeout *)

SetTimeoutSQL == <<"S","E","T"," ","s","t","a","t","e","m","e","n","t","_","t","i","m","e","o","u","t"," ","="," ">> \o NatToString(queryTimeout)

\* lines 167-170: add LIMIT if not present and maxResultRows is set
finalSQL(sql) ==
  IF maxResultRows # 0 /\ ~includes(toUpperCase(sql), <<"L","I","M","I","T">>)
    THEN sql \o <<" ","L","I","M","I","T"," ">> \o NatToString(maxResultRows)
    ELSE sql

\* new Promise(async (resolve, reject) => ...), up to await this.primaryDB.connect()
executeWithTimeout(c, sql) ==
  [c EXCEPT !.esql = sql, !.body = "connect", !.promise = "pending",
            !.timer = "armed", !.client = 0, !.err = Accepted, !.plan = NoPlan]

\* reject(e): settles the promise unless it is settled already
reject(c, e) ==
  IF c.promise = "pending" THEN [c EXCEPT !.promise = "rejected", !.err = e] ELSE c

\* resolve(result), were a settled promise settled again
resolve_late(c) == [c EXCEPT !.promise = "resolved"]

\* resolve(result)
resolve(c) ==
  IF c.promise = "pending" THEN [c EXCEPT !.promise = "resolved"] ELSE c

\* clearTimeout(timeout): a timer that fired stays fired
clearTimeout(c) ==
  IF c.timer = "armed" THEN [c EXCEPT !.timer = "cleared"] ELSE c

\* the catch block of the executor: clearTimeout(timeout); reject(error). The
\* client, when one was checked out, is not released there.
EwtCatch(c, e) == [reject(clearTimeout(c), e) EXCEPT !.body = "end"]

\* the timer fires: reject(new Error(`Query timeout after ...ms`))
EwtTimeout ==
  /\ call.timer = "armed"
  /\ call' = [reject(call, TimeoutError) EXCEPT !.timer = "fired"]
  /\ UNCHANGED <<reqs, vectorDB, vsql, verdict, n, pool, stmtTimeout, dbLog, isInitialized>>

\* connect() gives connection k; the executor sends SET statement_timeout on it
EwtConnected ==
  /\ call.body = "connect"
  /\ \E k \in Conns :
       /\ pool[k] = "idle"
       /\ pool' = [pool EXCEPT ![k] = "out"]
       /\ call' = [call EXCEPT !.client = k, !.body = "set"]
       /\ dbLog' = Append(dbLog, Statement(k, SetTimeoutSQL, "executeWithTimeout"))
  /\ UNCHANGED <<reqs, vectorDB, vsql, verdict, n, stmtTimeout, isInitialized>>

\* connect() rejects: the catch block runs
EwtConnectFailed ==
  /\ call.body = "connect"
  /\ call' = EwtCatch(call, ConnectFailed)
  /\ UNCHANGED <<reqs, vectorDB, vsql, verdict, n, pool, stmtTimeout, dbLog, isInitialized>>

\* the SET is done; the executor sends the query, with LIMIT added
EwtSetDone ==
  /\ call.body = "set"
  /\ stmtTimeout' = [stmtTimeout EXCEPT ![call.client] = queryTimeout]
  /\ call' = [call EXCEPT !.body = "query"]
  /\ dbLog' = Append(dbLog, [Statement(call.client, finalSQL(call.esql), "executeWithTimeout")
                               EXCEPT !.timeout = queryTimeout])
  /\ UNCHANGED <<reqs, vectorDB, vsql, verdict, n, pool, isInitialized>>

\* the SET fails: the catch block runs
EwtSetFailed ==
  /\ call.body = "set"
  /\ \E e \in QueryErrors : call' = EwtCatch(call, e)
  /\ UNCHANGED <<reqs, vectorDB, vsql, verdict, n, pool, stmtTimeout, dbLog, isInitialized>>

\* the query is done: client.release(); clearTimeout(timeout); resolve(result)
EwtQueryDone ==
  /\ call.body = "query"
  /\ pool' = [pool EXCEPT ![call.client] = "idle"]
  /\ \E result \in QueryPlans(call.esql) :
       call' = [resolve(clearTimeout(call))
                  EXCEPT !.body = "end", !.client = 0, !.plan = result]
  /\ UNCHANGED <<reqs, vectorDB, vsql, verdict, n, stmtTimeout, dbLog, isInitialized>>

\* the query fails: the catch block runs
EwtQueryFailed ==
  /\ call.body = "query"
  /\ \E e \in QueryErrors : call' = EwtCatch(call, e)
  /\ UNCHANGED <<reqs, vectorDB, vsql, verdict, n, pool, stmtTimeout, dbLog, isInitialized>>


----------------------------------------------------------------------------
(* The vector database and the requests that share it *)

\* the tables of the public schema, as populateTableMetadata lists them
TableNames == << "customers", "orders" >>

\* the rows extractSchema returns, one for each column
SchemaRows ==
  << [table_name |-> "customers", column_name |-> "id"],
     [table_name |-> "orders", column_name |-> "id"] >>

\* the rows of a metadata table: how many it holds for each item of
\* TableNames, or of SchemaRows
NoRows == [i \in 1..Len(TableNames) |-> 0]

OneRowEach == [i \in 1..Len(TableNames) |-> 1]

\* the vector database before the services first run
FreshVectorDB ==
  [ table_metadata |-> [exists |-> FALSE, rows |-> NoRows],
    schema_metadata |-> [exists |-> FALSE, rows |-> NoRows] ]

\* A request: op is what was asked, pc the await it stands at, i the index of
\* its loop over the rows to insert, ran whether it entered the body of
\* initialize, seen what its lookup in the metadata returned, outcome how it
\* ended.
NoReq ==
  [ op |-> "none", pc |-> "idle", i |-> 0, ran |-> FALSE,
    seen |-> [looked |-> FALSE, rows |-> NoRows], outcome |-> "pending" ]
----------------------------------------------------------------------------
(* QueryExecutionService: the functions that reach executeWithTimeout *)

\* executeQuery(sql, options), up to await this.validateQuerySafety(sql)
executeQuery(c, sql) ==
  [c EXCEPT !.fn = "executeQuery", !.fpc = "validate", !.fres = NoResult,
              !.value = NoValue]

\* validateSyntax(sql), up to await this.executeWithTimeout(`EXPLAIN ${sql}`)
validateSyntax(c, sql) ==
  [executeWithTimeout(c, <<"E","X","P","L","A","I","N"," ">> \o sql)
     EXCEPT !.fn = "validateSyntax", !.fpc = "await", !.fres = NoResult,
              !.value = NoValue]

\* estimateQueryCost(sql), up to await this.executeWithTimeout(explainSQL)
estimateQueryCost(c, sql) ==
  [executeWithTimeout(c, <<"E","X","P","L","A","I","N"," ","(","F","O","R","M","A","T"," ","J","S","O","N",")"," ">> \o sql)
     EXCEPT !.fn = "estimateQueryCost", !.fpc = "await", !.fres = NoResult,
              !.value = NoValue]

\* getExecutionPlan(sql), up to await this.executeWithTimeout(explainSQL)
getExecutionPlan(c, sql) ==
  [executeWithTimeout(c, <<"E","X","P","L","A","I","N"," ","(","F","O","R","M","A","T"," ","J","S","O","N",","," ","A","N","A","L","Y","Z","E",","," ","B","U","F","F","E","R","S",")"," ">> \o sql)
     EXCEPT !.fn = "getExecutionPlan", !.fpc = "await", !.fres = NoResult,
              !.value = NoValue]

\* executeQuery after validateQuerySafety, were its exception swallowed
AfterValidate_ignoreVerdict(c) ==
  { [executeWithTimeout(c, f) EXCEPT !.fpc = "await", !.safe = validateQuerySafety(c.sql).ok]
      : f \in formatSQL(c.sql) }

\* executeQuery from the validator's verdict on: the catch block when it threw,
\* formatSQL and executeWithTimeout(formattedSQL, options) when it did not
AfterValidate(c) ==
  LET v == validateQuerySafety(c.sql)
  IN IF ~v.ok
       THEN { [c EXCEPT !.fpc = "returned", !.fres = Returned(FALSE, message(v))] }
       ELSE { [executeWithTimeout(c, f) EXCEPT !.fpc = "await", !.safe = TRUE]
                : f \in formatSQL(c.sql) }

\* FunctionResult, were the catch block of executeQuery to throw the error on
FunctionResult_rethrow(c) ==
  CASE c.fn = "executeQuery" ->
         IF c.promise = "resolved" THEN Returned(TRUE, << >>)
         ELSE Threw(message(c.err))
    [] c.fn = "validateSyntax" ->
         IF c.promise = "resolved" THEN Returned(TRUE, <<"Q","u","e","r","y"," ","s","y","n","t","a","x"," ","i","s"," ","v","a","l","i","d">>)
         ELSE Returned(FALSE, message(c.err)) @@ [code |-> code(c.err)]
    [] c.fn = "estimateQueryCost" ->
         IF c.promise = "resolved" THEN Returned(TRUE, << >>)
         ELSE Threw(message(Rejected("CostEstimationFailed", message(c.err))))
    [] c.fn = "getExecutionPlan" ->
         IF c.promise = "resolved" THEN Returned(TRUE, << >>)
         ELSE Threw(message(Rejected("ExecutionPlanFailed", message(c.err))))

\* FunctionResult, were getExecutionPlan to return its failure as
\* estimateQueryCost's message
FunctionResult_planAsCost(c) ==
  CASE c.fn = "executeQuery" ->
         IF c.promise = "resolved" THEN Returned(TRUE, << >>)
         ELSE Returned(FALSE, message(c.err))
    [] c.fn = "validateSyntax" ->
         IF c.promise = "resolved" THEN Returned(TRUE, <<"Q","u","e","r","y"," ","s","y","n","t","a","x"," ","i","s"," ","v","a","l","i","d">>)
         ELSE Returned(FALSE, message(c.err)) @@ [code |-> code(c.err)]
    [] c.fn = "estimateQueryCost" ->
         IF c.promise = "resolved" THEN Returned(TRUE, << >>)
         ELSE Threw(message(Rejected("CostEstimationFailed", message(c.err))))
    [] c.fn = "getExecutionPlan" ->
         IF c.promise = "resolved" THEN Returned(TRUE, << >>)
         ELSE Threw(message(Rejected("CostEstimationFailed", message(c.err))))

\* FunctionResult, were validateSyntax to drop the code of the error
FunctionResult_noCode(c) ==
  CASE c.fn = "executeQuery" ->
         IF c.promise = "resolved" THEN Returned(TRUE, << >>)
         ELSE Returned(FALSE, message(c.err))
    [] c.fn = "validateSyntax" ->
         IF c.promise = "resolved" THEN Returned(TRUE, <<"Q","u","e","r","y"," ","s","y","n","t","a","x"," ","i","s"," ","v","a","l","i","d">>)
         ELSE Returned(FALSE, message(c.err)) @@ [code |-> << >>]
    [] c.fn = "estimateQueryCost" ->
         IF c.promise = "resolved" THEN Returned(TRUE, << >>)
         ELSE Threw(message(Rejected("CostEstimationFailed", message(c.err))))
    [] c.fn = "getExecutionPlan" ->
         IF c.promise = "resolved" THEN Returned(TRUE, << >>)
         ELSE Threw(message(Rejected("ExecutionPlanFailed", message(c.err))))

\* What the function gives its caller once the promise of executeWithTimeout
\* is settled. validateSyntax returns {valid, message, error: error.code}:
\* success is its valid, error its message and code its error field.
FunctionResult(c) ==
  CASE c.fn = "executeQuery" ->
         IF c.promise = "resolved" THEN Returned(TRUE, << >>)
         ELSE Returned(FALSE, message(c.err))
    [] c.fn = "validateSyntax" ->
         IF c.promise = "resolved" THEN Returned(TRUE, <<"Q","u","e","r","y"," ","s","y","n","t","a","x"," ","i","s"," ","v","a","l","i","d">>)
         ELSE Returned(FALSE, message(c.err)) @@ [code |-> code(c.err)]
    [] c.fn = "estimateQueryCost" ->
         IF c.promise = "resolved" THEN Returned(TRUE, << >>)
         ELSE Threw(message(Rejected("CostEstimationFailed", message(c.err))))
    [] c.fn = "getExecutionPlan" ->
         IF c.promise = "resolved" THEN Returned(TRUE, << >>)
         ELSE Threw(message(Rejected("ExecutionPlanFailed", message(c.err))))

\* Math.max(a, b) on numbers
Max(a, b) == IF a >= b THEN a ELSE b

RECURSIVE GCD(_, _)
GCD(a, b) == IF b = 0 THEN a ELSE GCD(b, a % b)

\* the numbers that are no quotient
NaN == [num |-> 0, den |-> 0]

Infinity == [num |-> 1, den |-> 0]

\* a / b on non-negative numbers: the quotient as a fraction in lowest terms;
\* a division by zero gives Infinity, and NaN when a is zero too
Divide(a, b) ==
  IF b = 0 THEN (IF a = 0 THEN NaN ELSE Infinity)
  ELSE [num |-> a \div GCD(a, b), den |-> b \div GCD(a, b)]

\* costEstimate, were the rows not bounded from below
costEstimate_noMax(plan) ==
  [ totalCost |-> plan.TotalCost,
    estimatedRows |-> plan.PlanRows,
    costPerRow |-> Divide(plan.TotalCost, plan.PlanRows) ]

\* the object estimateQueryCost returns for the plan of its EXPLAIN
costEstimate(plan) ==
  [ totalCost |-> plan.TotalCost,
    estimatedRows |-> plan.PlanRows,
    costPerRow |-> Divide(plan.TotalCost, Max(plan.PlanRows, 1)) ]

\* the value the function returns besides its verdict
FunctionValue(c) ==
  IF c.fn = "estimateQueryCost" /\ c.promise = "resolved"
    THEN costEstimate(c.plan) ELSE NoValue

\* the continuation of await this.validateQuerySafety(sql) in executeQuery
QesValidated ==
  /\ call.fn = "executeQuery"
  /\ call.fpc = "validate"
  /\ call' \in AfterValidate(call)
  /\ UNCHANGED <<reqs, vectorDB, vsql, verdict, n, pool, stmtTimeout, dbLog, isInitialized>>

\* the continuation of await this.executeWithTimeout(...) in the four functions
QesSettled ==
  /\ call.fpc = "await"
  /\ call.promise \in {"resolved", "rejected"}
  /\ call' = [call EXCEPT !.fpc = "returned", !.fres = FunctionResult(call),
                          !.value = FunctionValue(call)]
  /\ UNCHANGED <<reqs, vectorDB, vsql, verdict, n, pool, stmtTimeout, dbLog, isInitialized>>

\* a call begins: the record of the call before it and the statements it sent
\* are dropped
Begin(c) ==
  /\ call' = c
  /\ n' = n + 1
  /\ dbLog' = << >>
  /\ UNCHANGED <<reqs, vectorDB, vsql, verdict, pool, stmtTimeout, isInitialized>>

\* a caller calls one of the four functions; only executeQuery takes options,
\* which it hands to executeWithTimeout, where none of them is read
CallQes ==
  \E op \in QesOps, sql \in SqlPool, maxResults \in MaxResultsPool,
     timeoutMs \in TimeoutMsPool :
    /\ Quiet
    /\ op # "executeQuery" => maxResults = 0 /\ timeoutMs = 0
    /\ LET c == [NewCall(op, sql, maxResults)
                  EXCEPT !.pc = "called", !.timeoutMs = timeoutMs]
       IN Begin(CASE op = "executeQuery" -> executeQuery(c, sql)
                  [] op = "validateSyntax" -> validateSyntax(c, sql)
                  [] op = "estimateQueryCost" -> estimateQueryCost(c, sql)
                  [] op = "getExecutionPlan" -> getExecutionPlan(c, sql))

\* the caller has the function's value or exception
QesDone ==
  /\ call.op \in QesOps
  /\ call.pc = "called"
  /\ call.fpc = "returned"
  /\ call' = [call EXCEPT !.pc = "done", !.fn = "none", !.result = call.fres]
  /\ UNCHANGED <<reqs, vectorDB, vsql, verdict, n, pool, stmtTimeout, dbLog, isInitialized>>

\* the state of the services before any request
IdleServices ==
  /\ call = NoCall
  /\ n = 0
  /\ pool = [k \in Conns |-> "idle"]
  /\ stmtTimeout = [k \in Conns |-> 0]
  /\ dbLog = << >>
  /\ isInitialized = [s \in {"NLQService", "AdvancedNLQService"} |-> FALSE]
  /\ reqs = [r \in Reqs |-> NoReq]
  /\ vectorDB = FreshVectorDB

Init ==
  /\ vsql = << >>
  /\ verdict = Pending
  /\ IdleServices

Next ==
  \/ CallQes
  \/ QesValidated
  \/ QesSettled
  \/ QesDone
  \/ EwtTimeout
  \/ EwtConnected
  \/ EwtConnectFailed
  \/ EwtSetDone
  \/ EwtSetFailed
  \/ EwtQueryDone
  \/ EwtQueryFailed

Spec == Init /\ [][Next]_vars

\* Spec with the scheduling of the event loop: a timer that stays armed fires,
\* and the continuation of a settled executeWithTimeout runs. Nothing is
\* assumed of the pool or of the database, which may never answer.
SpecFair ==
  /\ Spec
  /\ WF_vars(EwtTimeout)
  /\ WF_vars(QesSettled)
  /\ WF_vars(QesDone)

----------------------------------------------------------------------------
(* The validator alone: one call of validateQuerySafety on one input *)

InitValidate ==
  /\ vsql \in ValidatorInputs
  /\ verdict = Pending
  /\ IdleServices

\* await queryService.validateQuerySafety(vsql)
Validate ==
  /\ verdict = Pending
  /\ verdict' = validateQuerySafety(vsql)
  /\ UNCHANGED <<reqs, vectorDB, vsql, call, n, pool, stmtTimeout, dbLog, isInitialized>>

NextValidate == Validate

SpecValidate == InitValidate /\ [][NextValidate]_vars

----------------------------------------------------------------------------
(* Pool.query of the primary database, as AdvancedNLQService uses it *)

\* this.primaryDB.query(text): the pool checks a client out, sends text on it
\* and releases it, whatever the outcome
primaryDBquery(c, text) ==
  [c EXCEPT !.esql = text, !.body = "pq.connect", !.promise = "pending",
            !.timer = "none", !.client = 0, !.err = Accepted]

\* the pool has a client for the query and sends it
PqConnected ==
  /\ call.body = "pq.connect"
  /\ \E k \in Conns :
       /\ pool[k] = "idle"
       /\ pool' = [pool EXCEPT ![k] = "out"]
       /\ call' = [call EXCEPT !.client = k, !.body = "pq.query"]
       /\ dbLog' = Append(dbLog, Statement(k, call.esql, "primaryDB.query"))
  /\ UNCHANGED <<reqs, vectorDB, vsql, verdict, n, stmtTimeout, isInitialized>>

\* the pool has no client within connectionTimeoutMillis
PqConnectFailed ==
  /\ call.body = "pq.connect"
  /\ call' = [reject(call, ConnectFailed) EXCEPT !.body = "end"]
  /\ UNCHANGED <<reqs, vectorDB, vsql, verdict, n, pool, stmtTimeout, dbLog, isInitialized>>

\* the database answers the query; the pool releases the client
PqDone ==
  /\ call.body = "pq.query"
  /\ pool' = [pool EXCEPT ![call.client] = "idle"]
  /\ call' = [resolve(call) EXCEPT !.body = "end", !.client = 0]
  /\ UNCHANGED <<reqs, vectorDB, vsql, verdict, n, stmtTimeout, dbLog, isInitialized>>

\* the database refuses the query; the pool releases the client
PqFailed ==
  /\ call.body = "pq.query"
  /\ pool' = [pool EXCEPT ![call.client] = "idle"]
  /\ \E e \in QueryErrors :
       call' = [reject(call, e) EXCEPT !.body = "end", !.client = 0]
  /\ UNCHANGED <<reqs, vectorDB, vsql, verdict, n, stmtTimeout, dbLog, isInitialized>>

----------------------------------------------------------------------------
(* The orchestrators: what they share *)

\* an error of the embedding provider, the vector database or the language model
UpstreamError == Rejected("UpstreamError", <<"U","p","s","t","r","e","a","m"," ","s","e","r","v","i","c","e"," ","f","a","i","l","e","d">>)

Service(op) ==
  IF op \in {"NLQService.processQuery", "NLQService.executeSQL"}
    THEN "NLQService" ELSE "AdvancedNLQService"

\* the awaited steps of processQuery up to the generated SQL, in order
Upstream(op) ==
  IF Service(op) = "NLQService"
    THEN <<"initialize", "generateEmbedding", "findRelevantSchema", "generateSQL">>
    ELSE <<"initialize", "findRelevantTables", "getCompleteTableSchemas",
           "generateSQLWithLangChain">>

\* if (!this.isInitialized) await this.initialize(): the first step awaited
FirstStep(op) == IF isInitialized[Service(op)] THEN Upstream(op)[2] ELSE Upstream(op)[1]

\* the operation gives r to its caller; an endpoint answers 200 when r.success
\* holds, 400 when it does not, and 500 with 'Internal server error' when the
\* service threw
Respond(c, r) ==
  IF c.op \in {"POST /api/nlq/query", "POST /api/nlq/execute-sql",
             "GET /api/nlq/health"}
    THEN [c EXCEPT !.pc = "done", !.fn = "none",
                   !.result = IF r.how = "threw"
                                THEN Returned(FALSE, <<"I","n","t","e","r","n","a","l"," ","s","e","r","v","e","r"," ","e","r","r","o","r">>) ELSE r,
                   !.status = IF r.how = "threw" THEN 500
                              ELSE IF r.success THEN 200 ELSE 400]
    ELSE [c EXCEPT !.pc = "done", !.fn = "none", !.result = r]

\* initialize() is done: this.isInitialized = true
Initialized ==
  /\ call.pc = "initialize"
  /\ isInitialized' = [isInitialized EXCEPT ![Service(call.op)] = TRUE]
  /\ call' = [call EXCEPT !.pc = Upstream(call.op)[2]]
  /\ UNCHANGED <<reqs, vectorDB, vsql, verdict, n, pool, stmtTimeout, dbLog>>

\* the embedding, or the lookup in the schema metadata, is done
StepDone ==
  /\ \E i \in 2..3 :
       /\ call.pc = Upstream(call.op)[i]
       /\ call' = [call EXCEPT !.pc = Upstream(call.op)[i + 1]]
  /\ UNCHANGED <<reqs, vectorDB, vsql, verdict, n, pool, stmtTimeout, dbLog, isInitialized>>

\* a step before the generated SQL throws: the catch block of processQuery
StepFailed ==
  /\ \E i \in 1..4 : call.pc = Upstream(call.op)[i]
  /\ call' = Respond(call, Returned(FALSE, message(UpstreamError)))
  /\ UNCHANGED <<reqs, vectorDB, vsql, verdict, n, pool, stmtTimeout, dbLog, isInitialized>>

----------------------------------------------------------------------------
(* NLQService *)

\* NLQService.processQuery(query, options) is called
CallProcessQuery ==
  /\ Quiet
  /\ \E maxResults \in MaxResultsPool, vbe \in BOOLEAN :
       Begin([NewCall("NLQService.processQuery", << >>, maxResults)
                EXCEPT !.pc = FirstStep("NLQService.processQuery"),
                       !.validateBeforeExecution = vbe])

\* NLQService.executeSQL(sql, options) is called
CallExecuteSQL ==
  /\ Quiet
  /\ \E sql \in SqlPool, maxResults \in MaxResultsPool :
       Begin(executeQuery([NewCall("NLQService.executeSQL", sql, maxResults)
                             EXCEPT !.pc = "executeQuery"], sql))

\* llmService.generateSQL gives sqlResult; step 4, validateSyntax(sqlResult.sql)
NlqGenerated ==
  /\ call.op = "NLQService.processQuery"
  /\ call.pc = "generateSQL"
  /\ \E sql \in SqlPool :
       call' = validateSyntax([call EXCEPT !.pc = "validateSyntax", !.sql = sql], sql)
  /\ UNCHANGED <<reqs, vectorDB, vsql, verdict, n, pool, stmtTimeout, dbLog, isInitialized>>

\* NlqSyntaxChecked, were the verdict of validateSyntax not looked at
NlqSyntaxChecked_ignoreInvalid ==
  /\ call.op = "NLQService.processQuery"
  /\ call.pc = "validateSyntax"
  /\ call.fpc = "returned"
  /\ call' = estimateQueryCost([call EXCEPT !.pc = "estimateQueryCost"], call.sql)
  /\ UNCHANGED <<reqs, vectorDB, vsql, verdict, n, pool, stmtTimeout, dbLog, isInitialized>>

\* validateSyntax has returned: step 5, estimateQueryCost, when the syntax is valid
NlqSyntaxChecked ==
  /\ call.op = "NLQService.processQuery"
  /\ call.pc = "validateSyntax"
  /\ call.fpc = "returned"
  /\ call' = IF call.fres.success
               THEN estimateQueryCost([call EXCEPT !.pc = "estimateQueryCost"], call.sql)
               ELSE Respond(call, Returned(FALSE, <<"G","e","n","e","r","a","t","e","d"," ","S","Q","L"," ","h","a","s"," ","s","y","n","t","a","x"," ","e","r","r","o","r","s">>))
  /\ UNCHANGED <<reqs, vectorDB, vsql, verdict, n, pool, stmtTimeout, dbLog, isInitialized>>

\* NlqCostEstimated, were a failed estimateQueryCost attempted again
NlqCostEstimated_retry ==
  /\ call.op = "NLQService.processQuery"
  /\ call.pc = "estimateQueryCost"
  /\ call.fpc = "returned"
  /\ call' = IF call.fres.how = "threw"
               THEN estimateQueryCost(call, call.sql)
             ELSE IF call.validateBeforeExecution
               THEN executeQuery([call EXCEPT !.pc = "executeQuery"], call.sql)
             ELSE Respond(call, Returned(TRUE, << >>))
  /\ UNCHANGED <<reqs, vectorDB, vsql, verdict, n, pool, stmtTimeout, dbLog, isInitialized>>

\* estimateQueryCost has returned or thrown: step 6, executeQuery, when
\* validateBeforeExecution is set
NlqCostEstimated ==
  /\ call.op = "NLQService.processQuery"
  /\ call.pc = "estimateQueryCost"
  /\ call.fpc = "returned"
  /\ call' = IF call.fres.how = "threw"
               THEN Respond(call, Returned(FALSE, call.fres.error))
             ELSE IF call.validateBeforeExecution
               THEN executeQuery([call EXCEPT !.pc = "executeQuery"], call.sql)
             ELSE Respond(call, Returned(TRUE, << >>))
  /\ UNCHANGED <<reqs, vectorDB, vsql, verdict, n, pool, stmtTimeout, dbLog, isInitialized>>

\* executeQuery has returned executionResult: processQuery returns success: true
NlqExecuted ==
  /\ call.op = "NLQService.processQuery"
  /\ call.pc = "executeQuery"
  /\ call.fpc = "returned"
  /\ call' = Respond(call, Returned(TRUE, << >>))
  /\ UNCHANGED <<reqs, vectorDB, vsql, verdict, n, pool, stmtTimeout, dbLog, isInitialized>>

\* executeQuery has returned result: executeSQL returns {success: true, sql,
\* ...result}, where the fields of result come last
NlqExecuteSQLDone ==
  /\ call.op = "NLQService.executeSQL"
  /\ call.pc = "executeQuery"
  /\ call.fpc = "returned"
  /\ call' = Respond(call, Returned(call.fres.success, call.fres.error))
  /\ UNCHANGED <<reqs, vectorDB, vsql, verdict, n, pool, stmtTimeout, dbLog, isInitialized>>

----------------------------------------------------------------------------
(* AdvancedNLQService, behind NLQController *)

\* sanitizeInput of the validation middleware, applied to the body's strings
sanitizeInput(input) ==
  trim(SelectSeq(input, LAMBDA ch : ch \notin {"<", ">", "'", "\""}))

\* the sql fields POST /api/nlq/execute-sql is sent
BodySqlPool == SqlPool \cup { <<"D","R","O","P"," ","T","A","B","L","E"," ","'","c","u","s","t","o","m","e","r","s","'">>, <<" ","<",">"," ">> }

advDangerousKeywords ==
  << <<"d","r","o","p">>, <<"d","e","l","e","t","e">>, <<"i","n","s","e","r","t">>, <<"u","p","d","a","t","e">>, <<"a","l","t","e","r">>, <<"t","r","u","n","c","a","t","e">> >>

allowedFunctions == << <<"c","u","r","r","e","n","t","_","d","a","t","e">>, <<"c","u","r","r","e","n","t","_","t","i","m","e","s","t","a","m","p">>, <<"n","o","w","(",")">>, <<"d","a","t","e","_","t","r","u","n","c">> >>

\* AdvancedNLQService.validateSQL(sql) up to the EXPLAIN: Accepted, or the
\* Error thrown. A keyword is let through when the text includes any of
\* allowedFunctions.
validateSQL(sql) ==
  LET trimmedSQL == toLowerCase(trim(sql))
      isAllowedFunction(keyword) ==
        \E i \in 1..Len(allowedFunctions) :
          includes(trimmedSQL, allowedFunctions[i]) /\ includes(trimmedSQL, keyword)
      bad == {i \in 1..Len(advDangerousKeywords) :
                /\ includes(trimmedSQL, advDangerousKeywords[i])
                /\ ~isAllowedFunction(advDangerousKeywords[i])}
  IN IF ~startsWith(trimmedSQL, <<"s","e","l","e","c","t">>) THEN Rejected("NotASelect", << >>)
     ELSE IF bad # {}
       THEN Rejected("DangerousKeyword",
                     advDangerousKeywords[CHOOSE i \in bad : \A j \in bad : i <= j])
     ELSE Accepted

\* the texts generateSQLWithLangChain gives: what the model answers is not
\* under the service's control
GeneratedSqlPool == SqlPool \cup { <<"S","E","L","E","C","T"," ","n","o","w","(",")",";"," ","D","E","L","E","T","E"," ","F","R","O","M"," ","c","u","s","t","o","m","e","r","s">> }

\* POST /api/nlq/query: NLQController.processQuery calls
\* AdvancedNLQService.processQuery(query, options)
HttpQuery ==
  /\ Quiet
  /\ Begin([NewCall("POST /api/nlq/query", << >>, 0)
              EXCEPT !.pc = FirstStep("POST /api/nlq/query")])

\* generateSQLWithLangChain gives generatedSQL; step 4, validateSQL, sends its
\* EXPLAIN unless the text is refused first
AdvGenerated ==
  /\ call.op = "POST /api/nlq/query"
  /\ call.pc = "generateSQLWithLangChain"
  /\ \E sql \in GeneratedSqlPool :
       LET c == [call EXCEPT !.sql = sql]
           v == validateSQL(sql)
       IN call' = IF v.ok
                    THEN primaryDBquery([c EXCEPT !.pc = "validateSQL"], <<"E","X","P","L","A","I","N"," ">> \o sql)
                    ELSE Respond(c, Returned(FALSE, message(v)))
  /\ UNCHANGED <<reqs, vectorDB, vsql, verdict, n, pool, stmtTimeout, dbLog, isInitialized>>

\* the EXPLAIN of validateSQL is answered: step 5, executeSQL(generatedSQL),
\* or 'SQL syntax error: ...'
AdvExplained ==
  /\ call.op = "POST /api/nlq/query"
  /\ call.pc = "validateSQL"
  /\ call.promise \in {"resolved", "rejected"}
  /\ call' = IF call.promise = "resolved"
               THEN primaryDBquery([call EXCEPT !.pc = "executeSQL"], call.sql)
               ELSE Respond(call, Returned(FALSE,
                                    message(Rejected("SyntaxError", message(call.err)))))
  /\ UNCHANGED <<reqs, vectorDB, vsql, verdict, n, pool, stmtTimeout, dbLog, isInitialized>>

\* executeSQL(generatedSQL) has returned or thrown: the response of processQuery
AdvExecuted ==
  /\ call.op = "POST /api/nlq/query"
  /\ call.pc = "executeSQL"
  /\ call.promise \in {"resolved", "rejected"}
  /\ call' = Respond(call, IF call.promise = "resolved" THEN Returned(TRUE, << >>)
                           ELSE Returned(FALSE, message(call.err)))
  /\ UNCHANGED <<reqs, vectorDB, vsql, verdict, n, pool, stmtTimeout, dbLog, isInitialized>>

\* POST /api/nlq/execute-sql: the body is sanitized and validated, then
\* NLQController.executeSQL calls AdvancedNLQService.executeSQL(sql, options),
\* which sends sql with primaryDB.query
HttpExecuteSQL ==
  /\ Quiet
  /\ \E body \in BodySqlPool, maxResults \in MaxResultsPool :
       LET sql == sanitizeInput(body)
           c == [NewCall("POST /api/nlq/execute-sql", sql, maxResults)
                   EXCEPT !.pc = "executeSQL"]
       IN Begin(IF sql = << >>
                  THEN Respond(c, Returned(FALSE, <<"V","a","l","i","d","a","t","i","o","n"," ","f","a","i","l","e","d">>))
                  ELSE primaryDBquery(c, sql))

\* executeSQL has returned {data, columns, rowCount}, which has no success
\* field, or thrown
HttpExecuteSQLDone ==
  /\ call.op = "POST /api/nlq/execute-sql"
  /\ call.pc = "executeSQL"
  /\ call.promise \in {"resolved", "rejected"}
  /\ call' = Respond(call, IF call.promise = "resolved" THEN Returned(FALSE, << >>)
                           ELSE Threw(message(call.err)))
  /\ UNCHANGED <<reqs, vectorDB, vsql, verdict, n, pool, stmtTimeout, dbLog, isInitialized>>

\* GET /api/nlq/health: NLQController.getHealth answers 200 with a constant
\* {healthy: true, llm_available: true, ...}; it asks neither the database,
\* nor the provider, nor the service
HttpHealth ==
  /\ Quiet
  /\ \E database \in BOOLEAN, llm \in BOOLEAN :
       Begin(Respond([NewCall("GET /api/nlq/health", << >>, 0)
                        EXCEPT !.env = [database |-> database, llm |-> llm]],
                     Returned(TRUE, << >>)))

----------------------------------------------------------------------------
(* The handlers behind the routes *)

\* ErrorHandlingService.getStatusCode(errorCode): statusMap[errorCode] || 500
getStatusCode(errorCode) ==
  CASE errorCode = "DB_CONNECTION_ERROR" -> 503
    [] errorCode = "DUPLICATE_ENTRY" -> 409
    [] errorCode = "INVALID_REFERENCE" -> 400
    [] errorCode = "DB_OPERATION_ERROR" -> 500
    [] errorCode = "VALIDATION_ERROR" -> 400
    [] errorCode = "SERVICE_ERROR" -> 500
    [] errorCode = "AUTH_ERROR" -> 401
    [] errorCode = "AUTHORIZATION_ERROR" -> 403
    [] errorCode = "RATE_LIMIT_ERROR" -> 429
    [] errorCode = "INTERNAL_ERROR" -> 500
    [] OTHER -> 500

\* the error type errorHandler determines from the properties of the error
errorType(error) ==
  IF error.code # << >> /\ startsWith(error.code, <<"2","3">>) THEN "database"
  ELSE IF error.name = "ValidationError" THEN "validation"
  ELSE IF error.name = "UnauthorizedError" THEN "auth"
  ELSE IF error.name = "ForbiddenError" THEN "authorization"
  ELSE IF includes(error.message, <<"r","a","t","e"," ","l","i","m","i","t">>) THEN "rateLimit"
  ELSE "generic"

\* the code of the response the handle...Error function of the type gives; a
\* database error here has none of the codes handleDatabaseError tells apart
errorResponseCode(type) ==
  CASE type = "database" -> "DB_OPERATION_ERROR"
    [] type = "validation" -> "VALIDATION_ERROR"
    [] type = "service" -> "SERVICE_ERROR"
    [] type = "auth" -> "AUTH_ERROR"
    [] type = "authorization" -> "AUTHORIZATION_ERROR"
    [] type = "rateLimit" -> "RATE_LIMIT_ERROR"
    [] OTHER -> "INTERNAL_ERROR"

\* ErrorHandlingService.formatErrorResponse(error, operation, errorType): the
\* response of the type, with statusCode: this.getStatusCode(errorResponse.code)
formatErrorResponse(error, type) ==
  [ success |-> FALSE,
    code |-> errorResponseCode(type),
    statusCode |-> getStatusCode(errorResponseCode(type)) ]

\* notFoundHandler: new Error(`Route ${req.method} ${req.url} not found`) with
\* statusCode 404, handed to next
notFoundError(method, url) ==
  [ name |-> "Error", code |-> << >>, statusCode |-> 404,
    message |-> <<"R","o","u","t","e"," ">> \o method \o <<" ">> \o url \o <<" ","n","o","t"," ","f","o","u","n","d">> ]

\* the requests no route is defined for
UndefinedRoutes ==
  { <<<<"G","E","T">>, <<"/","a","p","i","/","u","n","k","n","o","w","n">>>>, <<<<"P","O","S","T">>, <<"/","a","p","i","/","n","l","q","/","q","u","e","r","r","y">>>> }

\* a request no route matches: app.use('*', notFoundHandler) hands its error
\* to errorHandler, which answers res.status(errorResponse.statusCode)
HttpUndefinedRoute ==
  /\ Quiet
  /\ \E route \in UndefinedRoutes :
       LET error == notFoundError(route[1], route[2])
           errorResponse == formatErrorResponse(error, errorType(error))
       IN Begin([NewCall("undefined route", route[2], 0)
                   EXCEPT !.pc = "done",
                          !.err = Rejected("NotFound", error.message),
                          !.result = Returned(FALSE, <<"I","n","t","e","r","n","a","l"," ","s","e","r","v","e","r"," ","e","r","r","o","r">>),
                          !.status = errorResponse.statusCode])

----------------------------------------------------------------------------
(* The services under requests *)

NextNLQ ==
  \/ CallProcessQuery
  \/ CallExecuteSQL
  \/ HttpQuery
  \/ HttpExecuteSQL
  \/ HttpHealth
  \/ HttpUndefinedRoute
  \/ Initialized
  \/ StepDone
  \/ StepFailed
  \/ NlqGenerated
  \/ NlqSyntaxChecked
  \/ NlqCostEstimated
  \/ NlqExecuted
  \/ NlqExecuteSQLDone
  \/ AdvGenerated
  \/ AdvExplained
  \/ AdvExecuted
  \/ HttpExecuteSQLDone
  \/ QesValidated
  \/ QesSettled
  \/ EwtTimeout
  \/ EwtConnected
  \/ EwtConnectFailed
  \/ EwtSetDone
  \/ EwtSetFailed
  \/ EwtQueryDone
  \/ EwtQueryFailed
  \/ PqConnected
  \/ PqConnectFailed
  \/ PqDone
  \/ PqFailed

SpecNLQ == Init /\ [][NextNLQ]_vars

----------------------------------------------------------------------------
(* Requests side by side: lazy initialization and the refresh of the schema *)
(* metadata. A step is what runs between two awaits; the awaits of a request *)
(* that touch neither the vector database nor the service are left out.      *)

Others == <<vsql, verdict, call, n, pool, stmtTimeout, dbLog>>

\* a query of the request fails: the catch blocks log and throw on, and the
\* request ends as failed
Fail(r) == [reqs EXCEPT ![r].pc = "done", ![r].outcome = "failed"]

\* AdvancedNLQService.processQuery is called: if (!this.isInitialized) await
\* this.initialize(), which runs up to its first await, CREATE EXTENSION
AdvStart(r) ==
  /\ reqs[r].pc = "idle"
  /\ reqs' = [reqs EXCEPT ![r] =
       IF isInitialized["AdvancedNLQService"]
         THEN [NoReq EXCEPT !.op = "AdvancedNLQService.processQuery",
                            !.pc = "findRelevantTables"]
         ELSE [NoReq EXCEPT !.op = "AdvancedNLQService.processQuery",
                            !.pc = "createExtension", !.ran = TRUE]]
  /\ UNCHANGED <<Others, isInitialized, vectorDB>>

\* CREATE EXTENSION IF NOT EXISTS vector is done
AdvExtension(r) ==
  /\ reqs[r].pc = "createExtension"
  /\ reqs' = [reqs EXCEPT ![r].pc = "dropTable"]
  /\ UNCHANGED <<Others, isInitialized, vectorDB>>

\* DROP TABLE IF EXISTS table_metadata
AdvDropTable(r) ==
  /\ reqs[r].pc = "dropTable"
  /\ vectorDB' = [vectorDB EXCEPT !.table_metadata = [exists |-> FALSE, rows |-> NoRows]]
  /\ reqs' = [reqs EXCEPT ![r].pc = "createTable"]
  /\ UNCHANGED <<Others, isInitialized>>

\* CREATE TABLE table_metadata: an error when the table exists
AdvCreateTable(r) ==
  /\ reqs[r].pc = "createTable"
  /\ IF vectorDB.table_metadata.exists
       THEN reqs' = Fail(r) /\ UNCHANGED vectorDB
       ELSE /\ vectorDB' = [vectorDB EXCEPT !.table_metadata.exists = TRUE]
            /\ reqs' = [reqs EXCEPT ![r].pc = "createIndex"]
  /\ UNCHANGED <<Others, isInitialized>>

\* CREATE INDEX IF NOT EXISTS ... ON table_metadata: an error without the table
AdvCreateIndex(r) ==
  /\ reqs[r].pc = "createIndex"
  /\ reqs' = IF vectorDB.table_metadata.exists
               THEN [reqs EXCEPT ![r].pc = "countRows"]
               ELSE Fail(r)
  /\ UNCHANGED <<Others, isInitialized, vectorDB>>

\* initialize() returns: this.isInitialized = true, and processQuery goes on
\* to findRelevantTables
AdvInitialized(r) ==
  /\ isInitialized' = [isInitialized EXCEPT !["AdvancedNLQService"] = TRUE]
  /\ reqs' = [reqs EXCEPT ![r].pc = "findRelevantTables"]

\* populateTableMetadata: SELECT COUNT(*) FROM table_metadata; nothing is
\* inserted when it holds rows
AdvCountRows(r) ==
  /\ reqs[r].pc = "countRows"
  /\ IF ~vectorDB.table_metadata.exists
       THEN reqs' = Fail(r) /\ UNCHANGED isInitialized
     ELSE IF vectorDB.table_metadata.rows # NoRows
       THEN AdvInitialized(r)
     ELSE reqs' = [reqs EXCEPT ![r].pc = "insert", ![r].i = 1] /\ UNCHANGED isInitialized
  /\ UNCHANGED <<Others, vectorDB>>

\* populateTableMetadata: INSERT INTO table_metadata for the table at hand
AdvInsert(r) ==
  /\ reqs[r].pc = "insert"
  /\ reqs[r].op = "AdvancedNLQService.processQuery"
  /\ IF ~vectorDB.table_metadata.exists
       THEN reqs' = Fail(r) /\ UNCHANGED <<isInitialized, vectorDB>>
       ELSE /\ vectorDB' = [vectorDB EXCEPT !.table_metadata.rows[reqs[r].i] = @ + 1]
            /\ IF reqs[r].i = Len(TableNames)
                 THEN AdvInitialized(r)
                 ELSE reqs' = [reqs EXCEPT ![r].i = @ + 1] /\ UNCHANGED isInitialized
  /\ UNCHANGED Others

\* findRelevantTables: SELECT ... FROM table_metadata ORDER BY embedding <=> $1
AdvLookup(r) ==
  /\ reqs[r].pc = "findRelevantTables"
  /\ reqs' = IF vectorDB.table_metadata.exists
               THEN [reqs EXCEPT ![r].pc = "done", ![r].outcome = "ok",
                                 ![r].seen = [looked |-> TRUE,
                                              rows |-> vectorDB.table_metadata.rows]]
               ELSE Fail(r)
  /\ UNCHANGED <<Others, isInitialized, vectorDB>>

\* NLQService.processQuery is called: if (!this.isInitialized) await
\* this.initialize(), which runs up to its first await, schemaModel.initialize()
NlqStart(r) ==
  /\ reqs[r].pc = "idle"
  /\ reqs' = [reqs EXCEPT ![r] =
       IF isInitialized["NLQService"]
         THEN [NoReq EXCEPT !.op = "NLQService.processQuery", !.pc = "findRelevantSchema"]
         ELSE [NoReq EXCEPT !.op = "NLQService.processQuery",
                            !.pc = "schemaModel.initialize", !.ran = TRUE]]
  /\ UNCHANGED <<Others, isInitialized, vectorDB>>

\* SchemaModel.initialize: CREATE TABLE IF NOT EXISTS schema_metadata and its
\* index; then refreshSchemaMetadata begins
NlqSchemaInitialized(r) ==
  /\ reqs[r].pc = "schemaModel.initialize"
  /\ vectorDB' = [vectorDB EXCEPT !.schema_metadata.exists = TRUE]
  /\ reqs' = [reqs EXCEPT ![r].pc = "extractSchema"]
  /\ UNCHANGED <<Others, isInitialized>>

\* NLQService.refreshSchemaMetadata is called
RefreshStart(r) ==
  /\ reqs[r].pc = "idle"
  /\ reqs' = [reqs EXCEPT ![r] =
       [NoReq EXCEPT !.op = "NLQService.refreshSchemaMetadata", !.pc = "extractSchema"]]
  /\ UNCHANGED <<Others, isInitialized, vectorDB>>

\* extractSchema has returned SchemaRows; storeSchemaMetadata begins
RefreshExtracted(r) ==
  /\ reqs[r].pc = "extractSchema"
  /\ reqs' = [reqs EXCEPT ![r].pc = "delete"]
  /\ UNCHANGED <<Others, isInitialized, vectorDB>>

\* storeSchemaMetadata: DELETE FROM schema_metadata
StoreDelete(r) ==
  /\ reqs[r].pc = "delete"
  /\ vectorDB' = [vectorDB EXCEPT !.schema_metadata.rows = NoRows]
  /\ reqs' = [reqs EXCEPT ![r].pc = "insert", ![r].i = 1]
  /\ UNCHANGED <<Others, isInitialized>>

\* storeSchemaMetadata: INSERT INTO schema_metadata for the row at hand; after
\* the last one refreshSchemaMetadata returns, and initialize, when it made
\* the call, sets this.isInitialized = true
StoreInsert(r) ==
  /\ reqs[r].pc = "insert"
  /\ reqs[r].op # "AdvancedNLQService.processQuery"
  /\ vectorDB' = [vectorDB EXCEPT !.schema_metadata.rows[reqs[r].i] = @ + 1]
  /\ IF reqs[r].i < Len(SchemaRows)
       THEN reqs' = [reqs EXCEPT ![r].i = @ + 1] /\ UNCHANGED isInitialized
     ELSE IF reqs[r].op = "NLQService.processQuery"
       THEN /\ isInitialized' = [isInitialized EXCEPT !["NLQService"] = TRUE]
            /\ reqs' = [reqs EXCEPT ![r].pc = "findRelevantSchema"]
     ELSE reqs' = [reqs EXCEPT ![r].pc = "done", ![r].outcome = "ok"]
          /\ UNCHANGED isInitialized
  /\ UNCHANGED Others

\* findRelevantSchema: SELECT ... FROM schema_metadata ORDER BY embedding <=> $1
NlqLookup(r) ==
  /\ reqs[r].pc = "findRelevantSchema"
  /\ reqs' = [reqs EXCEPT ![r].pc = "done", ![r].outcome = "ok",
                         ![r].seen = [looked |-> TRUE,
                                      rows |-> vectorDB.schema_metadata.rows]]
  /\ UNCHANGED <<Others, isInitialized, vectorDB>>

\* the caller has the outcome of the request; another request may come
RequestLeaves(r) ==
  /\ reqs[r].pc = "done"
  /\ reqs' = [reqs EXCEPT ![r] = NoReq]
  /\ UNCHANGED <<Others, isInitialized, vectorDB>>

\* requests of both services arrive before either is initialized
NextInitialize ==
  \E r \in Reqs :
    \/ AdvStart(r)
    \/ AdvExtension(r)
    \/ AdvDropTable(r)
    \/ AdvCreateTable(r)
    \/ AdvCreateIndex(r)
    \/ AdvCountRows(r)
    \/ AdvInsert(r)
    \/ AdvLookup(r)
    \/ NlqStart(r)
    \/ NlqSchemaInitialized(r)
    \/ RefreshExtracted(r)
    \/ StoreDelete(r)
    \/ StoreInsert(r)
    \/ NlqLookup(r)

SpecInitialize == Init /\ [][NextInitialize]_vars

\* NLQService is initialized and schema_metadata holds a row for each column
InitRefresh ==
  /\ vsql = << >>
  /\ verdict = Pending
  /\ call = NoCall
  /\ n = 0
  /\ pool = [k \in Conns |-> "idle"]
  /\ stmtTimeout = [k \in Conns |-> 0]
  /\ dbLog = << >>
  /\ isInitialized = [s \in {"NLQService", "AdvancedNLQService"} |-> s = "NLQService"]
  /\ reqs = [r \in Reqs |-> NoReq]
  /\ vectorDB = [FreshVectorDB EXCEPT !.schema_metadata = [exists |-> TRUE, rows |-> OneRowEach]]

\* refreshes and lookups arrive side by side
NextRefresh ==
  \E r \in Reqs :
    \/ RefreshStart(r)
    \/ NlqStart(r)
    \/ RefreshExtracted(r)
    \/ StoreDelete(r)
    \/ StoreInsert(r)
    \/ NlqLookup(r)
    \/ RequestLeaves(r)

SpecRefresh == InitRefresh /\ [][NextRefresh]_vars

----------------------------------------------------------------------------
(* Claims on executeWithTimeout and executeQuery, under Spec *)

\* C1: every call that checks out a connection in executeWithTimeout releases it
\* on every exit path, so that once a call has given its result and its
\* executor has ended no connection of the pool is checked out.
C1_ConnectionsReleased ==
  (call.pc = "done" /\ call.body \in {"none", "end"}) =>
    \A k \in Conns : pool[k] = "idle"

\* C2: when validateQuerySafety rejects the SQL of an executeQuery call, the
\* executor is never invoked for it (no promise, no connection, no statement
\* sent since the call began), and the call returns success: false with the
\* message of the rejection.
C2_RejectedNeverExecuted ==
  (call.op = "executeQuery" /\ ~validateQuerySafety(call.sql).ok) =>
    /\ call.body = "none"
    /\ call.promise = "none"
    /\ call.client = 0
    /\ dbLog = << >>
    /\ call.pc = "done" =>
         call.result = Returned(FALSE, message(validateQuerySafety(call.sql)))

\* executeQuery('DELETE FROM customers') has returned its rejection
C2_Witness ==
  /\ call.op = "executeQuery"
  /\ call.sql = <<"D","E","L","E","T","E"," ","F","R","O","M"," ","c","u","s","t","o","m","e","r","s">>
  /\ call.pc = "done"
  /\ call.result.success = FALSE
  /\ call.result.error =
       <<"D","a","n","g","e","r","o","u","s"," ","o","p","e","r","a","t","i","o","n"," ","d","e","t","e","c","t","e","d",":"," ","D","E","L","E","T","E"," ","s","t","a","t","e","m","e","n","t","s"," ","a","r","e"," ","n","o","t"," ","a","l","l","o","w","e","d">>
  /\ dbLog = << >>

----------------------------------------------------------------------------
(* Claims on the orchestrators and the endpoints, under SpecNLQ *)

\* a statement the database received that carries the SQL of the call
CarriesSQL(st) == st.text # SetTimeoutSQL

\* a statement that runs the SQL of the call, and does not only explain it
ExecutesSQL(st) == CarriesSQL(st) /\ ~startsWith(st.text, <<"E","X","P","L","A","I","N">>)

\* C3: within one NLQService.processQuery request no statement carrying the
\* generated SQL (the EXPLAIN of validateSyntax, the EXPLAIN of
\* estimateQueryCost, the execution) reaches the database before
\* validateQuerySafety has accepted that SQL.
C3_SafetyCheckFirst ==
  call.op = "NLQService.processQuery" =>
    \A i \in DOMAIN dbLog : CarriesSQL(dbLog[i]) => call.safe

\* C4: for POST /api/nlq/execute-sql the caller's SQL reaches the primary
\* database only once validateQuerySafety has accepted it, and SQL it rejects
\* never reaches it.
C4_ExecuteSqlValidated ==
  call.op = "POST /api/nlq/execute-sql" =>
    \A i \in DOMAIN dbLog :
      CarriesSQL(dbLog[i]) => call.safe /\ validateQuerySafety(call.sql).ok

\* C5: every execution of generated SQL goes through executeWithTimeout, on a
\* session whose statement_timeout is queryTimeout and with a LIMIT in its
\* text; none goes through the pool's query directly.
C5_BoundedExecution ==
  call.op \in {"POST /api/nlq/query", "NLQService.processQuery"} =>
    \A i \in DOMAIN dbLog :
      ExecutesSQL(dbLog[i]) =>
        /\ dbLog[i].via = "executeWithTimeout"
        /\ dbLog[i].timeout = queryTimeout
        /\ includes(toUpperCase(dbLog[i].text), <<"L","I","M","I","T">>)

----------------------------------------------------------------------------
(* Claims on validateQuerySafety, under SpecValidate *)

\* the validator has given its verdict on vsql
Validated == verdict # Pending

\* the first of dangerousKeywords that the upper-cased text contains, 0 if none
FirstKeyword(sql) ==
  IF \E i \in 1..Len(dangerousKeywords) : includes(toUpperCase(sql), dangerousKeywords[i])
    THEN CHOOSE i \in 1..Len(dangerousKeywords) :
           /\ includes(toUpperCase(sql), dangerousKeywords[i])
           /\ \A j \in 1..(i - 1) : ~includes(toUpperCase(sql), dangerousKeywords[j])
    ELSE 0

\* the text does not start with SELECT, whatever the case of its letters and
\* the white space before it
NotSelect(sql) == ~startsWith(toUpperCase(trim(sql)), <<"S","E","L","E","C","T">>)

\* C6: every SQL string whose upper-cased text contains a dangerous keyword as
\* a substring, word boundaries or not, is rejected with the dangerous-operation
\* error naming the keyword (the first of the list it contains), and
\* 'SELECT * FROM customers' is accepted.
C6_DangerousKeywordRejected ==
  Validated =>
    /\ FirstKeyword(vsql) # 0 =>
         verdict = Rejected("DangerousOperation", dangerousKeywords[FirstKeyword(vsql)])
    /\ vsql = <<"S","E","L","E","C","T"," ","*"," ","F","R","O","M"," ","c","u","s","t","o","m","e","r","s">> => verdict = Accepted

\* a keyword inside a column name, in lower case
C6_Witness ==
  /\ vsql = <<"s","e","l","e","c","t"," ","*"," ","f","r","o","m"," ","u","p","d","a","t","e","_","c","o","u","n","t">>
  /\ verdict = Rejected("DangerousOperation", <<"U","P","D","A","T","E">>)

\* C7: no SQL string that contains pg_, information_schema or sys. in any
\* letter case is accepted, on one line or several, wherever the reference is.
C7_SystemReferenceRejected ==
  (/\ Validated
   /\ \/ includes(toLowerCase(vsql), <<"p","g","_">>)
      \/ includes(toLowerCase(vsql), <<"i","n","f","o","r","m","a","t","i","o","n","_","s","c","h","e","m","a">>)
      \/ includes(toLowerCase(vsql), <<"s","y","s",".">>))
    => ~verdict.ok

\* C8: every SQL string that references pg_read_file, pg_ls_dir, lo_import or
\* lo_export in any letter case is rejected, a SELECT without FROM included.
C8_DangerousFunctionRejected ==
  (/\ Validated
   /\ \E i \in 1..Len(dangerousFunctions) :
        includes(toLowerCase(vsql), dangerousFunctions[i]))
    => ~verdict.ok

Blank(sql) == \A i \in 1..Len(sql) : sql[i] \in WhiteSpace

----------------------------------------------------------------------------
(* Claims on the order and the purity of validateQuerySafety, under SpecValidate *)

\* some element of list, letters compared without case, occurs in sql
IncludesAny(sql, list) ==
  \E i \in 1..Len(list) : includes(toUpperCase(sql), toUpperCase(list[i]))

\* the kinds of the checks sql violates, in the canonical order of the checks
Violations(sql) ==
  SelectSeq(<<"DangerousOperation", "SystemTableAccess", "FileSystemAccess",
              "DangerousFunction", "NotASelect", "DangerousSubquery">>,
            LAMBDA kind :
              CASE kind = "DangerousOperation" -> FirstKeyword(sql) # 0
                [] kind = "SystemTableAccess" -> IncludesAny(sql, systemTables)
                [] kind = "FileSystemAccess" -> includes(toUpperCase(sql), <<"C","O","P","Y">>)
                [] kind = "DangerousFunction" -> IncludesAny(sql, dangerousFunctions)
                [] kind = "NotASelect" -> NotSelect(sql)
                [] kind = "DangerousSubquery" -> containsDangerousSubquery(sql))

\* C11: when a SQL string violates more than one safety check, the verdict is
\* the violation that comes first in the canonical order: dangerous operation,
\* system-table access, file-system access, dangerous function, not-a-SELECT,
\* dangerous subquery.
C11_FirstViolationSurfaced ==
  (Validated /\ Len(Violations(vsql)) > 1) =>
    (~verdict.ok /\ verdict.kind = Violations(vsql)[1])

----------------------------------------------------------------------------
(* Claims on the row bound of executeWithTimeout, under Spec *)

\* the characters of an identifier
IdentChars ==
  {LowerLetters[i] : i \in 1..26} \cup {UpperLetters[i] : i \in 1..26}
    \cup {Digits[i] : i \in 1..10} \cup {"_"}

\* sql holds the word tok, in any letter case, as a token of its own
ContainsToken(sql, tok) ==
  \E i \in IndexesOf(toUpperCase(sql), tok) :
    /\ i = 1 \/ sql[i - 1] \notin IdentChars
    /\ i + Len(tok) > Len(sql) \/ sql[i + Len(tok)] \notin IdentChars

\* the statements executeWithTimeout sent for the call that carry its SQL
SentSQL == SelectSeq(dbLog, LAMBDA st : st.via = "executeWithTimeout" /\ CarriesSQL(st))

\* C13: if the SQL handed to the executor does not contain the token LIMIT, in
\* any letter case, the statement sent is that SQL with ' LIMIT <bound>'
\* appended (the configured bound, for a call without options); if it does, the
\* statement is sent unmodified; every statement sent carries a row bound.
C13_LimitInjected ==
  (call.op \in QesOps /\ call.maxResults = 0) =>
    \A i \in DOMAIN SentSQL :
      /\ SentSQL[i].text =
           IF ContainsToken(call.esql, <<"L","I","M","I","T">>) THEN call.esql
           ELSE call.esql \o <<" ","L","I","M","I","T"," ">> \o NatToString(maxResultRows)
      /\ ContainsToken(SentSQL[i].text, <<"L","I","M","I","T">>)

\* C14: executeQuery(sql, {maxResults: n}) on a SQL without LIMIT sends a
\* statement that ends in ' LIMIT n': the option of the call takes precedence
\* over the configured bound.
C14_MaxResultsOption ==
  (/\ call.op = "executeQuery"
   /\ call.maxResults # 0
   /\ ~includes(toUpperCase(call.esql), <<"L","I","M","I","T">>)) =>
    \A i \in DOMAIN SentSQL :
      SentSQL[i].text = call.esql \o <<" ","L","I","M","I","T"," ">> \o NatToString(call.maxResults)

----------------------------------------------------------------------------
(* Claims on how executeQuery ends, under SpecFair *)

TimeoutMessage == <<"Q","u","e","r","y"," ","t","i","m","e","o","u","t"," ","a","f","t","e","r"," ","3","0","0","0","0","m","s">>

\* once the timer of an executeQuery call has fired, the promise stays rejected
\* with the timeout, and what the call returns is success: false with the
\* timeout message, whatever the executor does later
TimedOutResult ==
  (call.op = "executeQuery" /\ call.timer = "fired") =>
    /\ call.promise = "rejected"
    /\ call.err = TimeoutError
    /\ call.fpc = "returned" => call.fres = Returned(FALSE, TimeoutMessage)
    /\ call.pc = "done" => call.result = Returned(FALSE, TimeoutMessage)

\* C15: if the driver has not completed the query when the timeout elapses,
\* executeQuery completes, with success: false and the timeout message,
\* whether the driver then completes late, fails late or never answers, and a
\* late completion does not change the result; no executeQuery call that has
\* started its executor hangs.
C15_TimeoutCompletes ==
  /\ []TimedOutResult
  /\ (call.op = "executeQuery" /\ call.fpc = "await") ~> (call.pc = "done")

\* a call that timed out and whose query completed afterwards
C15_Witness ==
  /\ call.op = "executeQuery"
  /\ call.timer = "fired"
  /\ call.body = "end"
  /\ \A k \in Conns : pool[k] = "idle"
  /\ Len(dbLog) = 2
  /\ call.pc = "done"
  /\ call.result = Returned(FALSE, TimeoutMessage)

\* C16: executeQuery never throws: whatever fails (the validator, the checkout
\* of a connection, SET statement_timeout, the query, the timer) it returns an
\* object whose success is false and whose error is the message of the
\* failure, 'Table does not exist' for that error of the driver.
C16_ExecuteQueryNeverThrows ==
  (call.op = "executeQuery" /\ call.pc = "done") =>
    /\ call.result.how = "returned"
    /\ ~validateQuerySafety(call.sql).ok =>
         call.result = Returned(FALSE, message(validateQuerySafety(call.sql)))
    /\ call.promise = "rejected" =>
         /\ call.result.success = FALSE
         /\ call.err = TableMissing => call.result.error = <<"T","a","b","l","e"," ","d","o","e","s"," ","n","o","t"," ","e","x","i","s","t">>
         /\ call.err = ConnectFailed =>
              call.result.error = <<"t","i","m","e","o","u","t"," ","e","x","c","e","e","d","e","d"," ","w","h","e","n"," ","t","r","y","i","n","g"," ","t","o"," ","c","o","n","n","e","c","t">>
         /\ call.err = TimeoutError => call.result.error = TimeoutMessage
         /\ call.err \in {TableMissing, ConnectFailed, TimeoutError}
    /\ call.result.success <=> call.promise = "resolved"

\* the query of an executeQuery call failed in the database
C16_Witness ==
  /\ call.op = "executeQuery"
  /\ call.pc = "done"
  /\ call.body = "end"
  /\ Len(dbLog) = 2
  /\ call.result = Returned(FALSE, <<"T","a","b","l","e"," ","d","o","e","s"," ","n","o","t"," ","e","x","i","s","t">>)

\* C17, as stated: none of executeQuery, validateSyntax, estimateQueryCost and
\* getExecutionPlan throws for an expected failure; each returns a result
\* object.
C17_Original ==
  (call.op \in QesOps /\ call.pc = "done") => call.result.how = "returned"

\* C17, amended: executeQuery and validateSyntax never throw and return an
\* object whose success, or valid, is false on a failure; estimateQueryCost and
\* getExecutionPlan return a value when their EXPLAIN succeeds and throw an
\* Error otherwise, whose message is 'Cost estimation failed: ' or 'Execution
\* plan generation failed: ' followed by the message of the failure.
C17_ThrowingOperations ==
  (call.op \in QesOps /\ call.pc = "done") =>
    /\ call.op \in {"executeQuery", "validateSyntax"} =>
         /\ call.result.how = "returned"
         /\ call.result.success <=> call.promise = "resolved"
    /\ call.op \in {"estimateQueryCost", "getExecutionPlan"} =>
         IF call.promise = "resolved"
           THEN call.result = Returned(TRUE, << >>)
           ELSE call.result =
                  Threw((IF call.op = "estimateQueryCost"
                           THEN <<"C","o","s","t"," ","e","s","t","i","m","a","t","i","o","n"," ","f","a","i","l","e","d",":"," ">>
                           ELSE <<"E","x","e","c","u","t","i","o","n"," ","p","l","a","n"," ","g","e","n","e","r","a","t","i","o","n"," ","f","a","i","l","e","d",":"," ">>)
                        \o message(call.err))

\* getExecutionPlan has thrown, the query failing in the database
C17_Witness ==
  /\ call.op = "getExecutionPlan"
  /\ call.pc = "done"
  /\ call.result =
       Threw(<<"E","x","e","c","u","t","i","o","n"," ","p","l","a","n"," ","g","e","n","e","r","a","t","i","o","n"," ","f","a","i","l","e","d",":"," ","T","a","b","l","e"," ","d","o","e","s"," ","n","o","t"," ","e","x","i","s","t">>)

\* C18: validateSyntax never throws: it returns valid: true with the message
\* 'Query syntax is valid' exactly when its EXPLAIN of the SQL succeeds (the
\* promise of executeWithTimeout resolves), and otherwise valid: false with the
\* message and the code of the error passed through.
C18_ValidateSyntaxResult ==
  (call.op = "validateSyntax" /\ call.pc = "done") =>
    /\ call.result.how = "returned"
    /\ call.result.success <=> call.promise = "resolved"
    /\ call.result.success => call.result.error = <<"Q","u","e","r","y"," ","s","y","n","t","a","x"," ","i","s"," ","v","a","l","i","d">>
    /\ ~call.result.success =>
         /\ call.result.error = message(call.err)
         /\ call.result.code = code(call.err)
    /\ \A i \in DOMAIN SentSQL : startsWith(SentSQL[i].text, <<"E","X","P","L","A","I","N"," ">> \o call.sql)

\* validateSyntax has returned valid: false, the EXPLAIN failing in the database
C18_Witness ==
  /\ call.op = "validateSyntax"
  /\ call.pc = "done"
  /\ Len(dbLog) = 2
  /\ call.result.success = FALSE
  /\ call.result.error = <<"T","a","b","l","e"," ","d","o","e","s"," ","n","o","t"," ","e","x","i","s","t">>
  /\ call.result.code = <<"4","2","P","0","1">>

----------------------------------------------------------------------------
(* Claims on the outcomes of NLQService.processQuery, under SpecNLQ *)

\* validateSyntax was the last function of the request and reported the
\* generated SQL invalid
SyntaxInvalid ==
  /\ call.op = "NLQService.processQuery"
  /\ call.esql = <<"E","X","P","L","A","I","N"," ">> \o call.sql
  /\ call.fpc = "returned"
  /\ ~call.fres.success

\* once validateSyntax has reported the SQL invalid, the one statement of the
\* request that carries the SQL is its EXPLAIN, and the response is the
\* syntax-error response
SyntaxInvalidOutcome ==
  SyntaxInvalid =>
    /\ call.pc \in {"validateSyntax", "done"}
    /\ \A i \in DOMAIN dbLog :
         CarriesSQL(dbLog[i]) =>
           /\ startsWith(dbLog[i].text, <<"E","X","P","L","A","I","N"," ">> \o call.sql)
           /\ dbLog[i].via = "executeWithTimeout"
    /\ Len(SelectSeq(dbLog, CarriesSQL)) <= 1
    /\ call.pc = "done" =>
         call.result = Returned(FALSE, <<"G","e","n","e","r","a","t","e","d"," ","S","Q","L"," ","h","a","s"," ","s","y","n","t","a","x"," ","e","r","r","o","r","s">>)

\* C19: in NLQService.processQuery, when validateSyntax reports the generated
\* SQL invalid, the next step of the request is its end: the response is
\* success: false with 'Generated SQL has syntax errors', and neither the cost
\* estimation nor the execution is started or sends a statement.
C19_SyntaxInvalidEnds ==
  /\ []SyntaxInvalidOutcome
  /\ [][(/\ call.op = "NLQService.processQuery"
          /\ call.pc = "validateSyntax"
          /\ call.fpc = "returned"
          /\ ~call.fres.success
          /\ call'.pc # "validateSyntax")
         => (/\ call'.pc = "done"
             /\ call'.result = Returned(FALSE, <<"G","e","n","e","r","a","t","e","d"," ","S","Q","L"," ","h","a","s"," ","s","y","n","t","a","x"," ","e","r","r","o","r","s">>)
             /\ call'.esql = call.esql
             /\ dbLog' = dbLog)]_vars

\* a request that ended on the syntax error the database reported
C19_Witness ==
  /\ SyntaxInvalid
  /\ call.pc = "done"
  /\ call.fres.error = <<"T","a","b","l","e"," ","d","o","e","s"," ","n","o","t"," ","e","x","i","s","t">>
  /\ Len(dbLog) = 2
  /\ call.result = Returned(FALSE, <<"G","e","n","e","r","a","t","e","d"," ","S","Q","L"," ","h","a","s"," ","s","y","n","t","a","x"," ","e","r","r","o","r","s">>)

\* C20: whenever validateQuerySafety rejects the SQL generated for a request,
\* NLQService.processQuery reports success: false with the reason of the
\* rejection (which the controller answers with 400), never a success.
C20_RejectionReported ==
  [][(/\ call.op = "NLQService.processQuery"
      /\ call.pc = "executeQuery"
      /\ call.fpc = "returned"
      /\ ~call.safe
      /\ call'.pc = "done")
     => (/\ call'.result.success = FALSE
         /\ call'.result.error = call.fres.error)]_vars

----------------------------------------------------------------------------
(* Claims on the other endpoints and on the pipeline as a whole, under SpecNLQ *)

\* C21: GET /api/nlq/health answers 200 when the service is healthy and 503
\* when the database or the LLM provider is unreachable or the schema is not
\* initialized, as things are when the request is answered.
C21_HealthStatus ==
  (call.op = "GET /api/nlq/health" /\ call.pc = "done") =>
    call.status = IF /\ call.env.database
                     /\ call.env.llm
                     /\ isInitialized["AdvancedNLQService"]
                    THEN 200 ELSE 503

\* the stages of a request in the order of the code, its end last
StageRank(pc) ==
  CASE pc \in {"none", "called"} -> 0
    [] pc = "initialize" -> 1
    [] pc \in {"generateEmbedding", "findRelevantTables"} -> 2
    [] pc \in {"findRelevantSchema", "getCompleteTableSchemas"} -> 3
    [] pc \in {"generateSQL", "generateSQLWithLangChain"} -> 4
    [] pc \in {"validateSyntax", "validateSQL"} -> 5
    [] pc = "estimateQueryCost" -> 6
    [] pc \in {"executeQuery", "executeSQL"} -> 7
    [] pc = "done" -> 8

\* the statements of the syntax check, of the cost estimate and of the execution
IsCostStatement(st) == startsWith(st.text, <<"E","X","P","L","A","I","N"," ","(","F","O","R","M","A","T"," ","J","S","O","N",")"," ">>)

IsSyntaxStatement(st) == startsWith(st.text, <<"E","X","P","L","A","I","N"," ">>) /\ ~IsCostStatement(st)

IsExecutionStatement(st) == CarriesSQL(st) /\ ~startsWith(st.text, <<"E","X","P","L","A","I","N"," ">>)

\* each stage has sent its statement at most once for the request
StagesSentOnce ==
  /\ Len(SelectSeq(dbLog, IsSyntaxStatement)) <= 1
  /\ Len(SelectSeq(dbLog, IsCostStatement)) <= 1
  /\ Len(SelectSeq(dbLog, IsExecutionStatement)) <= 1

\* C22: there is no retry. Within a request every stage (SQL generation,
\* syntax check, cost estimate, execution) is attempted at most once: the
\* request only moves forward through the stages and each stage sends its
\* statement at most once; and a request that has ended has one response,
\* which nothing changes afterwards.
C22_NoRetry ==
  /\ []StagesSentOnce
  /\ [][n' = n =>
          /\ call'.pc # call.pc => StageRank(call'.pc) > StageRank(call.pc)
          /\ call'.pc = call.pc =>
               Len(SelectSeq(dbLog', CarriesSQL)) <= Len(SelectSeq(dbLog, CarriesSQL)) + 1
          /\ call.pc = "done" =>
               /\ call'.pc = "done"
               /\ call'.result = call.result
               /\ call'.status = call.status]_vars

\* a processQuery request that ended after the syntax check, the cost estimate
\* and the execution had each sent their statement
C22_Witness ==
  /\ call.op = "NLQService.processQuery"
  /\ call.pc = "done"
  /\ Len(SelectSeq(dbLog, IsSyntaxStatement)) = 1
  /\ Len(SelectSeq(dbLog, IsCostStatement)) = 1
  /\ Len(SelectSeq(dbLog, IsExecutionStatement)) = 1

\* sql holds one of advDangerousKeywords, in any letter case, at a place that
\* does not lie within an occurrence of one of allowedFunctions
DangerousOutsideAllowed(sql) ==
  LET lower == toLowerCase(trim(sql))
  IN \E k \in 1..Len(advDangerousKeywords) :
       \E i \in IndexesOf(lower, advDangerousKeywords[k]) :
         ~\E f \in 1..Len(allowedFunctions) :
            \E j \in IndexesOf(lower, allowedFunctions[f]) :
              /\ j <= i
              /\ i + Len(advDangerousKeywords[k]) <= j + Len(allowedFunctions[f])

\* C27: AdvancedNLQService.validateSQL rejects every SQL that holds drop,
\* delete, insert, update, alter or truncate unless that occurrence is itself
\* part of the name of an allowed function: no generated SQL with a dangerous
\* keyword of its own reaches the EXPLAIN of validateSQL or executeSQL.
C27_DangerousKeywordStopped ==
  call.op = "POST /api/nlq/query" =>
    \A i \in DOMAIN dbLog :
      CarriesSQL(dbLog[i]) => ~DangerousOutsideAllowed(call.sql)

\* C30: a request to an undefined route is answered with status 404, the
\* status notFoundHandler set on the error it handed to errorHandler.
C30_UndefinedRoute404 ==
  (call.op = "undefined route" /\ call.pc = "done") => call.status = 404

----------------------------------------------------------------------------
(* Claims on what executeWithTimeout sends and on what it is handed, under Spec *)

\* C23: formatting is for the log only. Every statement executeQuery sends
\* for a call is the caller's SQL as it was handed in, with at most a LIMIT
\* clause appended; it is never the text the formatter produced.
C23_OriginalSent ==
  call.op = "executeQuery" =>
    \A i \in DOMAIN SentSQL :
      \/ SentSQL[i].text = call.sql
      \/ startsWith(SentSQL[i].text, call.sql \o <<" ","L","I","M","I","T"," ">>)

\* the timeout a call asks for: options.timeoutMs, or the configured one
EffectiveTimeout == IF call.timeoutMs # 0 THEN call.timeoutMs ELSE queryTimeout

\* C24: when executeQuery sends the query, the statement timeout in force on
\* its connection is the effective timeout of the call (options.timeoutMs when
\* the call gives one, the configured queryTimeout otherwise), and it was set
\* by an earlier SET statement_timeout on the same connection.
C24_TimeoutInForce ==
  call.op = "executeQuery" =>
    \A i \in DOMAIN dbLog :
      CarriesSQL(dbLog[i]) =>
        /\ dbLog[i].timeout = EffectiveTimeout
        /\ \E j \in 1..(i - 1) :
             /\ dbLog[j].conn = dbLog[i].conn
             /\ dbLog[j].text =
                  <<"S","E","T"," ","s","t","a","t","e","m","e","n","t","_","t","i","m","e","o","u","t"," ","="," ">> \o NatToString(EffectiveTimeout)

\* the same for the calls that give no timeout of their own
C24_DefaultTimeoutInForce ==
  (call.op = "executeQuery" /\ call.timeoutMs = 0) => C24_TimeoutInForce

\* C25: getExecutionPlan, whose EXPLAIN ANALYZE executes the statement it
\* explains, only ever sends SQL that validateQuerySafety accepts.
C25_PlanOnlyValidated ==
  call.op = "getExecutionPlan" =>
    \A i \in DOMAIN dbLog :
      CarriesSQL(dbLog[i]) => validateQuerySafety(call.sql).ok

\* C26: when the plan reports a total cost C and R rows, estimateQueryCost
\* returns totalCost C, estimatedRows R and costPerRow = C / max(R, 1): for
\* R = 0 the cost per row is C itself, and no division by zero takes place.
C26_CostPerRow ==
  (call.op = "estimateQueryCost" /\ call.pc = "done"
     /\ call.result.how = "returned") =>
    LET C == call.plan.TotalCost
        R == call.plan.PlanRows
        v == call.value
    IN /\ v.totalCost = C
       /\ v.estimatedRows = R
       /\ v.costPerRow \notin {NaN, Infinity}
       /\ v.costPerRow.den > 0
       /\ v.costPerRow.num * Max(R, 1) = C * v.costPerRow.den
       /\ R = 0 => v.costPerRow = [num |-> C, den |-> 1]

\* a cost estimate returned for a plan of cost 25 and no row
C26_Witness ==
  /\ call.op = "estimateQueryCost"
  /\ call.pc = "done"
  /\ call.result.how = "returned"
  /\ call.plan = [TotalCost |-> 25, PlanRows |-> 0]
  /\ call.value.costPerRow = [num |-> 25, den |-> 1]

----------------------------------------------------------------------------
(* Claims on requests side by side, under SpecInitialize and SpecRefresh *)

\* the requests of the service whose processQuery is op that entered the body
\* of initialize
RanInitialize(op) == {r \in Reqs : reqs[r].op = op /\ reqs[r].ran}

\* C28: when several requests call processQuery before the service is
\* initialized, the body of initialize runs for at most one of them, no
\* request fails, and every lookup in the metadata finds it complete.
C28_InitializeOnce ==
  /\ Cardinality(RanInitialize("AdvancedNLQService.processQuery")) <= 1
  /\ Cardinality(RanInitialize("NLQService.processQuery")) <= 1
  /\ \A r \in Reqs :
       /\ reqs[r].outcome # "failed"
       /\ reqs[r].seen.looked => reqs[r].seen.rows = OneRowEach

\* no request is under way
NoRequestUnderWay == \A r \in Reqs : reqs[r].pc \in {"idle", "done"}

\* C29: once the refreshSchemaMetadata calls made so far have completed,
\* overlapping or not, schema_metadata holds exactly one row for each column
\* extractSchema returned; and a lookup that runs beside a refresh never finds
\* the table empty or partly filled.
C29_RefreshConsistent ==
  /\ NoRequestUnderWay => vectorDB.schema_metadata.rows = OneRowEach
  /\ \A r \in Reqs :
       reqs[r].seen.looked => reqs[r].seen.rows = OneRowEach

====
